---- MODULE Spec2Model ----
(***************************************************************************)
(* Model of app.py: the great-circle interpolation great_circle_points,   *)
(* the flight registry FLIGHT_PATHS built at import time, the two figure   *)
(* builders and the Dash callback update_flights.                          *)
(*                                                                         *)
(* Arithmetic.  The program computes in IEEE-754 binary64.  The model      *)
(* computes in a decimal fixed-point format with the same structure: a     *)
(* number is an integer count of 1/S, every operation rounds its exact     *)
(* result to the nearest representable value (ties to even), a result too  *)
(* large to represent is an infinity, and 0/0, inf-inf, 0*inf and the      *)
(* functions outside their domain give NaN, which propagates.  np.pi is    *)
(* the representable number just below pi, as the binary64 np.pi is, so    *)
(* sin(np.pi) is a small positive number and cos(np.pi/2) is too.          *)
(* Tolerances of the properties are scaled to this format: Tol plays the   *)
(* role that 1e-9 degrees plays for binary64.                              *)
(***************************************************************************)
EXTENDS Integers, Sequences, FiniteSets

(* ----------------------------------------------------------------------- *)
(* The floating-point format                                               *)
(* ----------------------------------------------------------------------- *)

\* One unit in the last place is 1/S.
S == 1000

\* Largest finite magnitude.
MaxFix == 1000000 * S

PInf == MaxFix + 1
NInf == -(MaxFix + 1)
NaN == MaxFix + 2

IsNaN(a) == a = NaN
IsFinite(a) == a >= -MaxFix /\ a <= MaxFix
IsInf(a) == a = PInf \/ a = NInf

Abs(a) == IF a < 0 THEN -a ELSE a
Sgn(a) == IF a > 0 THEN 1 ELSE IF a < 0 THEN -1 ELSE 0

\* The integer nearest to a/b for integers a, b with b # 0; ties to even.
RoundDiv(a, b) ==
  LET n == Abs(a)
      d == Abs(b)
      q == n \div d
      r == n % d
      up == r > d - r \/ (r = d - r /\ q % 2 = 1)
      m == IF up THEN q + 1 ELSE q
  IN  IF Sgn(a) * Sgn(b) >= 0 THEN m ELSE -m

SignedInf(s) == IF s > 0 THEN PInf ELSE NInf

\* a + b
fl_add(a, b) ==
  IF IsNaN(a) \/ IsNaN(b) THEN NaN
  ELSE IF IsInf(a) THEN (IF IsInf(b) /\ b # a THEN NaN ELSE a)
  ELSE IF IsInf(b) THEN b
  ELSE IF a + b > MaxFix THEN PInf
  ELSE IF a + b < -MaxFix THEN NInf
  ELSE a + b

\* -a
fl_neg(a) == IF IsNaN(a) THEN NaN ELSE -a

\* a - b
fl_sub(a, b) == fl_add(a, fl_neg(b))

\* a * b
fl_mul(a, b) ==
  IF IsNaN(a) \/ IsNaN(b) THEN NaN
  ELSE IF IsInf(a) \/ IsInf(b)
       THEN (IF a = 0 \/ b = 0 THEN NaN ELSE SignedInf(Sgn(a) * Sgn(b)))
  ELSE IF a = 0 \/ b = 0 THEN 0
  ELSE IF Abs(a) > MaxFix \div Abs(b) THEN SignedInf(Sgn(a) * Sgn(b))
  ELSE RoundDiv(a * b, S)

\* a / b, as numpy divides binary64 scalars: no exception, 0/0 is NaN and
\* x/0 is an infinity.
fl_div(a, b) ==
  IF IsNaN(a) \/ IsNaN(b) THEN NaN
  ELSE IF IsInf(a)
       THEN (IF IsInf(b) THEN NaN ELSE IF b >= 0 THEN a ELSE -a)
  ELSE IF IsInf(b) THEN 0
  ELSE IF b = 0 THEN (IF a = 0 THEN NaN ELSE SignedInf(a))
  ELSE IF Abs(a) > MaxFix \div S THEN SignedInf(Sgn(a) * Sgn(b))
  ELSE RoundDiv(a * S, b)

\* The float of an integer k.
FromInt(k) == k * S

(* ----------------------------------------------------------------------- *)
(* numpy's elementary functions                                            *)
(* ----------------------------------------------------------------------- *)

\* np.pi: pi = 3.14159... rounded down to the format.
np_pi == 3141

\* The tables below are laid out in rows of RowLen entries.
RowLen == 25

\* Entry i, counted from 0, of a table.
TableAt(table, i) == table[(i \div RowLen) + 1][(i % RowLen) + 1]

\* Entry i of SinTable is S + sin(i/S) rounded to the format, for i in 0..8000.
SinTable == <<
  <<1000, 1001, 1002, 1003, 1004, 1005, 1006, 1007, 1008, 1009, 1010, 1011, 1012, 1013, 1014, 1015, 1016, 1017, 1018, 1019, 1020, 1021, 1022, 1023, 1024>>,
  <<1025, 1026, 1027, 1028, 1029, 1030, 1031, 1032, 1033, 1034, 1035, 1036, 1037, 1038, 1039, 1040, 1041, 1042, 1043, 1044, 1045, 1046, 1047, 1048, 1049>>,
  <<1050, 1051, 1052, 1053, 1054, 1055, 1056, 1057, 1058, 1059, 1060, 1061, 1062, 1063, 1064, 1065, 1066, 1067, 1068, 1069, 1070, 1071, 1072, 1073, 1074>>,
  <<1075, 1076, 1077, 1078, 1079, 1080, 1081, 1082, 1083, 1084, 1085, 1086, 1087, 1088, 1089, 1090, 1091, 1092, 1093, 1094, 1095, 1096, 1097, 1098, 1099>>,
  <<1100, 1101, 1102, 1103, 1104, 1105, 1106, 1107, 1108, 1109, 1110, 1111, 1112, 1113, 1114, 1115, 1116, 1117, 1118, 1119, 1120, 1121, 1122, 1123, 1124>>,
  <<1125, 1126, 1127, 1128, 1129, 1130, 1131, 1132, 1133, 1134, 1135, 1136, 1137, 1138, 1139, 1140, 1141, 1142, 1143, 1144, 1144, 1145, 1146, 1147, 1148>>,
  <<1149, 1150, 1151, 1152, 1153, 1154, 1155, 1156, 1157, 1158, 1159, 1160, 1161, 1162, 1163, 1164, 1165, 1166, 1167, 1168, 1169, 1170, 1171, 1172, 1173>>,
  <<1174, 1175, 1176, 1177, 1178, 1179, 1180, 1181, 1182, 1183, 1184, 1185, 1186, 1187, 1188, 1189, 1190, 1191, 1192, 1193, 1194, 1195, 1196, 1197, 1198>>,
  <<1199, 1200, 1201, 1202, 1203, 1204, 1205, 1206, 1207, 1207, 1208, 1209, 1210, 1211, 1212, 1213, 1214, 1215, 1216, 1217, 1218, 1219, 1220, 1221, 1222>>,
  <<1223, 1224, 1225, 1226, 1227, 1228, 1229, 1230, 1231, 1232, 1233, 1234, 1235, 1236, 1237, 1238, 1239, 1240, 1241, 1242, 1243, 1244, 1244, 1245, 1246>>,
  <<1247, 1248, 1249, 1250, 1251, 1252, 1253, 1254, 1255, 1256, 1257, 1258, 1259, 1260, 1261, 1262, 1263, 1264, 1265, 1266, 1267, 1268, 1269, 1270, 1271>>,
  <<1272, 1273, 1273, 1274, 1275, 1276, 1277, 1278, 1279, 1280, 1281, 1282, 1283, 1284, 1285, 1286, 1287, 1288, 1289, 1290, 1291, 1292, 1293, 1294, 1295>>,
  <<1296, 1296, 1297, 1298, 1299, 1300, 1301, 1302, 1303, 1304, 1305, 1306, 1307, 1308, 1309, 1310, 1311, 1312, 1313, 1314, 1315, 1316, 1316, 1317, 1318>>,
  <<1319, 1320, 1321, 1322, 1323, 1324, 1325, 1326, 1327, 1328, 1329, 1330, 1331, 1332, 1333, 1333, 1334, 1335, 1336, 1337, 1338, 1339, 1340, 1341, 1342>>,
  <<1343, 1344, 1345, 1346, 1347, 1348, 1349, 1349, 1350, 1351, 1352, 1353, 1354, 1355, 1356, 1357, 1358, 1359, 1360, 1361, 1362, 1363, 1363, 1364, 1365>>,
  <<1366, 1367, 1368, 1369, 1370, 1371, 1372, 1373, 1374, 1375, 1376, 1376, 1377, 1378, 1379, 1380, 1381, 1382, 1383, 1384, 1385, 1386, 1387, 1388, 1388>>,
  <<1389, 1390, 1391, 1392, 1393, 1394, 1395, 1396, 1397, 1398, 1399, 1400, 1400, 1401, 1402, 1403, 1404, 1405, 1406, 1407, 1408, 1409, 1410, 1410, 1411>>,
  <<1412, 1413, 1414, 1415, 1416, 1417, 1418, 1419, 1420, 1421, 1421, 1422, 1423, 1424, 1425, 1426, 1427, 1428, 1429, 1430, 1430, 1431, 1432, 1433, 1434>>,
  <<1435, 1436, 1437, 1438, 1439, 1439, 1440, 1441, 1442, 1443, 1444, 1445, 1446, 1447, 1448, 1448, 1449, 1450, 1451, 1452, 1453, 1454, 1455, 1456, 1456>>,
  <<1457, 1458, 1459, 1460, 1461, 1462, 1463, 1464, 1464, 1465, 1466, 1467, 1468, 1469, 1470, 1471, 1472, 1472, 1473, 1474, 1475, 1476, 1477, 1478, 1479>>,
  <<1479, 1480, 1481, 1482, 1483, 1484, 1485, 1486, 1486, 1487, 1488, 1489, 1490, 1491, 1492, 1493, 1493, 1494, 1495, 1496, 1497, 1498, 1499, 1499, 1500>>,
  <<1501, 1502, 1503, 1504, 1505, 1506, 1506, 1507, 1508, 1509, 1510, 1511, 1512, 1512, 1513, 1514, 1515, 1516, 1517, 1518, 1518, 1519, 1520, 1521, 1522>>,
  <<1523, 1524, 1524, 1525, 1526, 1527, 1528, 1529, 1529, 1530, 1531, 1532, 1533, 1534, 1535, 1535, 1536, 1537, 1538, 1539, 1540, 1540, 1541, 1542, 1543>>,
  <<1544, 1545, 1546, 1546, 1547, 1548, 1549, 1550, 1551, 1551, 1552, 1553, 1554, 1555, 1556, 1556, 1557, 1558, 1559, 1560, 1561, 1561, 1562, 1563, 1564>>,
  <<1565, 1565, 1566, 1567, 1568, 1569, 1570, 1570, 1571, 1572, 1573, 1574, 1575, 1575, 1576, 1577, 1578, 1579, 1579, 1580, 1581, 1582, 1583, 1583, 1584>>,
  <<1585, 1586, 1587, 1588, 1588, 1589, 1590, 1591, 1592, 1592, 1593, 1594, 1595, 1596, 1596, 1597, 1598, 1599, 1600, 1600, 1601, 1602, 1603, 1604, 1604>>,
  <<1605, 1606, 1607, 1608, 1608, 1609, 1610, 1611, 1612, 1612, 1613, 1614, 1615, 1615, 1616, 1617, 1618, 1619, 1619, 1620, 1621, 1622, 1623, 1623, 1624>>,
  <<1625, 1626, 1626, 1627, 1628, 1629, 1630, 1630, 1631, 1632, 1633, 1633, 1634, 1635, 1636, 1637, 1637, 1638, 1639, 1640, 1640, 1641, 1642, 1643, 1643>>,
  <<1644, 1645, 1646, 1647, 1647, 1648, 1649, 1650, 1650, 1651, 1652, 1653, 1653, 1654, 1655, 1656, 1656, 1657, 1658, 1659, 1659, 1660, 1661, 1662, 1662>>,
  <<1663, 1664, 1665, 1665, 1666, 1667, 1668, 1668, 1669, 1670, 1671, 1671, 1672, 1673, 1674, 1674, 1675, 1676, 1677, 1677, 1678, 1679, 1679, 1680, 1681>>,
  <<1682, 1682, 1683, 1684, 1685, 1685, 1686, 1687, 1687, 1688, 1689, 1690, 1690, 1691, 1692, 1693, 1693, 1694, 1695, 1695, 1696, 1697, 1698, 1698, 1699>>,
  <<1700, 1700, 1701, 1702, 1703, 1703, 1704, 1705, 1705, 1706, 1707, 1708, 1708, 1709, 1710, 1710, 1711, 1712, 1712, 1713, 1714, 1715, 1715, 1716, 1717>>,
  <<1717, 1718, 1719, 1719, 1720, 1721, 1722, 1722, 1723, 1724, 1724, 1725, 1726, 1726, 1727, 1728, 1728, 1729, 1730, 1730, 1731, 1732, 1733, 1733, 1734>>,
  <<1735, 1735, 1736, 1737, 1737, 1738, 1739, 1739, 1740, 1741, 1741, 1742, 1743, 1743, 1744, 1745, 1745, 1746, 1747, 1747, 1748, 1749, 1749, 1750, 1751>>,
  <<1751, 1752, 1753, 1753, 1754, 1755, 1755, 1756, 1757, 1757, 1758, 1758, 1759, 1760, 1760, 1761, 1762, 1762, 1763, 1764, 1764, 1765, 1766, 1766, 1767>>,
  <<1768, 1768, 1769, 1769, 1770, 1771, 1771, 1772, 1773, 1773, 1774, 1775, 1775, 1776, 1776, 1777, 1778, 1778, 1779, 1780, 1780, 1781, 1781, 1782, 1783>>,
  <<1783, 1784, 1785, 1785, 1786, 1786, 1787, 1788, 1788, 1789, 1790, 1790, 1791, 1791, 1792, 1793, 1793, 1794, 1794, 1795, 1796, 1796, 1797, 1797, 1798>>,
  <<1799, 1799, 1800, 1800, 1801, 1802, 1802, 1803, 1803, 1804, 1805, 1805, 1806, 1806, 1807, 1808, 1808, 1809, 1809, 1810, 1810, 1811, 1812, 1812, 1813>>,
  <<1813, 1814, 1815, 1815, 1816, 1816, 1817, 1817, 1818, 1819, 1819, 1820, 1820, 1821, 1821, 1822, 1823, 1823, 1824, 1824, 1825, 1825, 1826, 1827, 1827>>,
  <<1828, 1828, 1829, 1829, 1830, 1830, 1831, 1832, 1832, 1833, 1833, 1834, 1834, 1835, 1835, 1836, 1837, 1837, 1838, 1838, 1839, 1839, 1840, 1840, 1841>>,
  <<1841, 1842, 1843, 1843, 1844, 1844, 1845, 1845, 1846, 1846, 1847, 1847, 1848, 1848, 1849, 1849, 1850, 1851, 1851, 1852, 1852, 1853, 1853, 1854, 1854>>,
  <<1855, 1855, 1856, 1856, 1857, 1857, 1858, 1858, 1859, 1859, 1860, 1860, 1861, 1861, 1862, 1862, 1863, 1863, 1864, 1864, 1865, 1865, 1866, 1866, 1867>>,
  <<1867, 1868, 1868, 1869, 1869, 1870, 1870, 1871, 1871, 1872, 1872, 1873, 1873, 1874, 1874, 1875, 1875, 1876, 1876, 1877, 1877, 1878, 1878, 1879, 1879>>,
  <<1880, 1880, 1881, 1881, 1881, 1882, 1882, 1883, 1883, 1884, 1884, 1885, 1885, 1886, 1886, 1887, 1887, 1888, 1888, 1888, 1889, 1889, 1890, 1890, 1891>>,
  <<1891, 1892, 1892, 1893, 1893, 1893, 1894, 1894, 1895, 1895, 1896, 1896, 1897, 1897, 1897, 1898, 1898, 1899, 1899, 1900, 1900, 1901, 1901, 1901, 1902>>,
  <<1902, 1903, 1903, 1904, 1904, 1904, 1905, 1905, 1906, 1906, 1907, 1907, 1907, 1908, 1908, 1909, 1909, 1909, 1910, 1910, 1911, 1911, 1912, 1912, 1912>>,
  <<1913, 1913, 1914, 1914, 1914, 1915, 1915, 1916, 1916, 1916, 1917, 1917, 1918, 1918, 1918, 1919, 1919, 1920, 1920, 1920, 1921, 1921, 1922, 1922, 1922>>,
  <<1923, 1923, 1923, 1924, 1924, 1925, 1925, 1925, 1926, 1926, 1926, 1927, 1927, 1928, 1928, 1928, 1929, 1929, 1929, 1930, 1930, 1931, 1931, 1931, 1932>>,
  <<1932, 1932, 1933, 1933, 1933, 1934, 1934, 1935, 1935, 1935, 1936, 1936, 1936, 1937, 1937, 1937, 1938, 1938, 1938, 1939, 1939, 1939, 1940, 1940, 1940>>,
  <<1941, 1941, 1941, 1942, 1942, 1942, 1943, 1943, 1943, 1944, 1944, 1944, 1945, 1945, 1945, 1946, 1946, 1946, 1947, 1947, 1947, 1948, 1948, 1948, 1949>>,
  <<1949, 1949, 1950, 1950, 1950, 1951, 1951, 1951, 1951, 1952, 1952, 1952, 1953, 1953, 1953, 1954, 1954, 1954, 1955, 1955, 1955, 1955, 1956, 1956, 1956>>,
  <<1957, 1957, 1957, 1957, 1958, 1958, 1958, 1959, 1959, 1959, 1959, 1960, 1960, 1960, 1961, 1961, 1961, 1961, 1962, 1962, 1962, 1962, 1963, 1963, 1963>>,
  <<1964, 1964, 1964, 1964, 1965, 1965, 1965, 1965, 1966, 1966, 1966, 1966, 1967, 1967, 1967, 1967, 1968, 1968, 1968, 1968, 1969, 1969, 1969, 1969, 1970>>,
  <<1970, 1970, 1970, 1971, 1971, 1971, 1971, 1972, 1972, 1972, 1972, 1973, 1973, 1973, 1973, 1973, 1974, 1974, 1974, 1974, 1975, 1975, 1975, 1975, 1976>>,
  <<1976, 1976, 1976, 1976, 1977, 1977, 1977, 1977, 1977, 1978, 1978, 1978, 1978, 1978, 1979, 1979, 1979, 1979, 1980, 1980, 1980, 1980, 1980, 1981, 1981>>,
  <<1981, 1981, 1981, 1981, 1982, 1982, 1982, 1982, 1982, 1983, 1983, 1983, 1983, 1983, 1984, 1984, 1984, 1984, 1984, 1984, 1985, 1985, 1985, 1985, 1985>>,
  <<1985, 1986, 1986, 1986, 1986, 1986, 1986, 1987, 1987, 1987, 1987, 1987, 1987, 1988, 1988, 1988, 1988, 1988, 1988, 1989, 1989, 1989, 1989, 1989, 1989>>,
  <<1989, 1990, 1990, 1990, 1990, 1990, 1990, 1990, 1991, 1991, 1991, 1991, 1991, 1991, 1991, 1991, 1992, 1992, 1992, 1992, 1992, 1992, 1992, 1992, 1993>>,
  <<1993, 1993, 1993, 1993, 1993, 1993, 1993, 1994, 1994, 1994, 1994, 1994, 1994, 1994, 1994, 1994, 1995, 1995, 1995, 1995, 1995, 1995, 1995, 1995, 1995>>,
  <<1995, 1996, 1996, 1996, 1996, 1996, 1996, 1996, 1996, 1996, 1996, 1996, 1996, 1997, 1997, 1997, 1997, 1997, 1997, 1997, 1997, 1997, 1997, 1997, 1997>>,
  <<1997, 1998, 1998, 1998, 1998, 1998, 1998, 1998, 1998, 1998, 1998, 1998, 1998, 1998, 1998, 1998, 1998, 1999, 1999, 1999, 1999, 1999, 1999, 1999, 1999>>,
  <<1999, 1999, 1999, 1999, 1999, 1999, 1999, 1999, 1999, 1999, 1999, 1999, 1999, 1999, 1999, 2000, 2000, 2000, 2000, 2000, 2000, 2000, 2000, 2000, 2000>>,
  <<2000, 2000, 2000, 2000, 2000, 2000, 2000, 2000, 2000, 2000, 2000, 2000, 2000, 2000, 2000, 2000, 2000, 2000, 2000, 2000, 2000, 2000, 2000, 2000, 2000>>,
  <<2000, 2000, 2000, 2000, 2000, 2000, 2000, 2000, 2000, 2000, 2000, 2000, 2000, 2000, 2000, 2000, 2000, 2000, 2000, 2000, 2000, 2000, 2000, 2000, 2000>>,
  <<2000, 2000, 2000, 1999, 1999, 1999, 1999, 1999, 1999, 1999, 1999, 1999, 1999, 1999, 1999, 1999, 1999, 1999, 1999, 1999, 1999, 1999, 1999, 1999, 1999>>,
  <<1999, 1998, 1998, 1998, 1998, 1998, 1998, 1998, 1998, 1998, 1998, 1998, 1998, 1998, 1998, 1998, 1998, 1997, 1997, 1997, 1997, 1997, 1997, 1997, 1997>>,
  <<1997, 1997, 1997, 1997, 1997, 1996, 1996, 1996, 1996, 1996, 1996, 1996, 1996, 1996, 1996, 1996, 1995, 1995, 1995, 1995, 1995, 1995, 1995, 1995, 1995>>,
  <<1995, 1994, 1994, 1994, 1994, 1994, 1994, 1994, 1994, 1994, 1993, 1993, 1993, 1993, 1993, 1993, 1993, 1993, 1993, 1992, 1992, 1992, 1992, 1992, 1992>>,
  <<1992, 1992, 1991, 1991, 1991, 1991, 1991, 1991, 1991, 1990, 1990, 1990, 1990, 1990, 1990, 1990, 1989, 1989, 1989, 1989, 1989, 1989, 1989, 1988, 1988>>,
  <<1988, 1988, 1988, 1988, 1988, 1987, 1987, 1987, 1987, 1987, 1987, 1986, 1986, 1986, 1986, 1986, 1986, 1985, 1985, 1985, 1985, 1985, 1985, 1984, 1984>>,
  <<1984, 1984, 1984, 1983, 1983, 1983, 1983, 1983, 1983, 1982, 1982, 1982, 1982, 1982, 1981, 1981, 1981, 1981, 1981, 1980, 1980, 1980, 1980, 1980, 1979>>,
  <<1979, 1979, 1979, 1979, 1978, 1978, 1978, 1978, 1978, 1977, 1977, 1977, 1977, 1977, 1976, 1976, 1976, 1976, 1975, 1975, 1975, 1975, 1975, 1974, 1974>>,
  <<1974, 1974, 1973, 1973, 1973, 1973, 1972, 1972, 1972, 1972, 1972, 1971, 1971, 1971, 1971, 1970, 1970, 1970, 1970, 1969, 1969, 1969, 1969, 1968, 1968>>,
  <<1968, 1968, 1967, 1967, 1967, 1967, 1966, 1966, 1966, 1966, 1965, 1965, 1965, 1965, 1964, 1964, 1964, 1963, 1963, 1963, 1963, 1962, 1962, 1962, 1962>>,
  <<1961, 1961, 1961, 1960, 1960, 1960, 1960, 1959, 1959, 1959, 1958, 1958, 1958, 1958, 1957, 1957, 1957, 1956, 1956, 1956, 1956, 1955, 1955, 1955, 1954>>,
  <<1954, 1954, 1953, 1953, 1953, 1953, 1952, 1952, 1952, 1951, 1951, 1951, 1950, 1950, 1950, 1949, 1949, 1949, 1949, 1948, 1948, 1948, 1947, 1947, 1947>>,
  <<1946, 1946, 1946, 1945, 1945, 1945, 1944, 1944, 1944, 1943, 1943, 1943, 1942, 1942, 1942, 1941, 1941, 1941, 1940, 1940, 1940, 1939, 1939, 1939, 1938>>,
  <<1938, 1938, 1937, 1937, 1937, 1936, 1936, 1935, 1935, 1935, 1934, 1934, 1934, 1933, 1933, 1933, 1932, 1932, 1932, 1931, 1931, 1930, 1930, 1930, 1929>>,
  <<1929, 1929, 1928, 1928, 1927, 1927, 1927, 1926, 1926, 1926, 1925, 1925, 1924, 1924, 1924, 1923, 1923, 1923, 1922, 1922, 1921, 1921, 1921, 1920, 1920>>,
  <<1919, 1919, 1919, 1918, 1918, 1917, 1917, 1917, 1916, 1916, 1915, 1915, 1915, 1914, 1914, 1913, 1913, 1913, 1912, 1912, 1911, 1911, 1911, 1910, 1910>>,
  <<1909, 1909, 1908, 1908, 1908, 1907, 1907, 1906, 1906, 1906, 1905, 1905, 1904, 1904, 1903, 1903, 1903, 1902, 1902, 1901, 1901, 1900, 1900, 1899, 1899>>,
  <<1899, 1898, 1898, 1897, 1897, 1896, 1896, 1896, 1895, 1895, 1894, 1894, 1893, 1893, 1892, 1892, 1891, 1891, 1891, 1890, 1890, 1889, 1889, 1888, 1888>>,
  <<1887, 1887, 1886, 1886, 1886, 1885, 1885, 1884, 1884, 1883, 1883, 1882, 1882, 1881, 1881, 1880, 1880, 1879, 1879, 1878, 1878, 1877, 1877, 1877, 1876>>,
  <<1876, 1875, 1875, 1874, 1874, 1873, 1873, 1872, 1872, 1871, 1871, 1870, 1870, 1869, 1869, 1868, 1868, 1867, 1867, 1866, 1866, 1865, 1865, 1864, 1864>>,
  <<1863, 1863, 1862, 1862, 1861, 1861, 1860, 1860, 1859, 1859, 1858, 1858, 1857, 1857, 1856, 1856, 1855, 1855, 1854, 1853, 1853, 1852, 1852, 1851, 1851>>,
  <<1850, 1850, 1849, 1849, 1848, 1848, 1847, 1847, 1846, 1846, 1845, 1844, 1844, 1843, 1843, 1842, 1842, 1841, 1841, 1840, 1840, 1839, 1839, 1838, 1837>>,
  <<1837, 1836, 1836, 1835, 1835, 1834, 1834, 1833, 1832, 1832, 1831, 1831, 1830, 1830, 1829, 1829, 1828, 1827, 1827, 1826, 1826, 1825, 1825, 1824, 1824>>,
  <<1823, 1822, 1822, 1821, 1821, 1820, 1820, 1819, 1818, 1818, 1817, 1817, 1816, 1816, 1815, 1814, 1814, 1813, 1813, 1812, 1811, 1811, 1810, 1810, 1809>>,
  <<1808, 1808, 1807, 1807, 1806, 1806, 1805, 1804, 1804, 1803, 1803, 1802, 1801, 1801, 1800, 1800, 1799, 1798, 1798, 1797, 1797, 1796, 1795, 1795, 1794>>,
  <<1794, 1793, 1792, 1792, 1791, 1790, 1790, 1789, 1789, 1788, 1787, 1787, 1786, 1786, 1785, 1784, 1784, 1783, 1782, 1782, 1781, 1781, 1780, 1779, 1779>>,
  <<1778, 1777, 1777, 1776, 1776, 1775, 1774, 1774, 1773, 1772, 1772, 1771, 1770, 1770, 1769, 1769, 1768, 1767, 1767, 1766, 1765, 1765, 1764, 1763, 1763>>,
  <<1762, 1761, 1761, 1760, 1760, 1759, 1758, 1758, 1757, 1756, 1756, 1755, 1754, 1754, 1753, 1752, 1752, 1751, 1750, 1750, 1749, 1748, 1748, 1747, 1746>>,
  <<1746, 1745, 1744, 1744, 1743, 1742, 1742, 1741, 1740, 1740, 1739, 1738, 1738, 1737, 1736, 1736, 1735, 1734, 1734, 1733, 1732, 1732, 1731, 1730, 1730>>,
  <<1729, 1728, 1727, 1727, 1726, 1725, 1725, 1724, 1723, 1723, 1722, 1721, 1721, 1720, 1719, 1718, 1718, 1717, 1716, 1716, 1715, 1714, 1714, 1713, 1712>>,
  <<1711, 1711, 1710, 1709, 1709, 1708, 1707, 1707, 1706, 1705, 1704, 1704, 1703, 1702, 1702, 1701, 1700, 1699, 1699, 1698, 1697, 1697, 1696, 1695, 1694>>,
  <<1694, 1693, 1692, 1692, 1691, 1690, 1689, 1689, 1688, 1687, 1686, 1686, 1685, 1684, 1684, 1683, 1682, 1681, 1681, 1680, 1679, 1678, 1678, 1677, 1676>>,
  <<1675, 1675, 1674, 1673, 1673, 1672, 1671, 1670, 1670, 1669, 1668, 1667, 1667, 1666, 1665, 1664, 1664, 1663, 1662, 1661, 1661, 1660, 1659, 1658, 1658>>,
  <<1657, 1656, 1655, 1655, 1654, 1653, 1652, 1652, 1651, 1650, 1649, 1648, 1648, 1647, 1646, 1645, 1645, 1644, 1643, 1642, 1642, 1641, 1640, 1639, 1639>>,
  <<1638, 1637, 1636, 1635, 1635, 1634, 1633, 1632, 1632, 1631, 1630, 1629, 1628, 1628, 1627, 1626, 1625, 1625, 1624, 1623, 1622, 1621, 1621, 1620, 1619>>,
  <<1618, 1618, 1617, 1616, 1615, 1614, 1614, 1613, 1612, 1611, 1610, 1610, 1609, 1608, 1607, 1606, 1606, 1605, 1604, 1603, 1602, 1602, 1601, 1600, 1599>>,
  <<1598, 1598, 1597, 1596, 1595, 1594, 1594, 1593, 1592, 1591, 1590, 1590, 1589, 1588, 1587, 1586, 1586, 1585, 1584, 1583, 1582, 1582, 1581, 1580, 1579>>,
  <<1578, 1577, 1577, 1576, 1575, 1574, 1573, 1573, 1572, 1571, 1570, 1569, 1568, 1568, 1567, 1566, 1565, 1564, 1563, 1563, 1562, 1561, 1560, 1559, 1559>>,
  <<1558, 1557, 1556, 1555, 1554, 1554, 1553, 1552, 1551, 1550, 1549, 1549, 1548, 1547, 1546, 1545, 1544, 1543, 1543, 1542, 1541, 1540, 1539, 1538, 1538>>,
  <<1537, 1536, 1535, 1534, 1533, 1533, 1532, 1531, 1530, 1529, 1528, 1527, 1527, 1526, 1525, 1524, 1523, 1522, 1521, 1521, 1520, 1519, 1518, 1517, 1516>>,
  <<1516, 1515, 1514, 1513, 1512, 1511, 1510, 1509, 1509, 1508, 1507, 1506, 1505, 1504, 1503, 1503, 1502, 1501, 1500, 1499, 1498, 1497, 1497, 1496, 1495>>,
  <<1494, 1493, 1492, 1491, 1490, 1490, 1489, 1488, 1487, 1486, 1485, 1484, 1483, 1483, 1482, 1481, 1480, 1479, 1478, 1477, 1476, 1476, 1475, 1474, 1473>>,
  <<1472, 1471, 1470, 1469, 1469, 1468, 1467, 1466, 1465, 1464, 1463, 1462, 1461, 1461, 1460, 1459, 1458, 1457, 1456, 1455, 1454, 1453, 1453, 1452, 1451>>,
  <<1450, 1449, 1448, 1447, 1446, 1445, 1444, 1444, 1443, 1442, 1441, 1440, 1439, 1438, 1437, 1436, 1435, 1435, 1434, 1433, 1432, 1431, 1430, 1429, 1428>>,
  <<1427, 1426, 1426, 1425, 1424, 1423, 1422, 1421, 1420, 1419, 1418, 1417, 1417, 1416, 1415, 1414, 1413, 1412, 1411, 1410, 1409, 1408, 1407, 1406, 1406>>,
  <<1405, 1404, 1403, 1402, 1401, 1400, 1399, 1398, 1397, 1396, 1395, 1395, 1394, 1393, 1392, 1391, 1390, 1389, 1388, 1387, 1386, 1385, 1384, 1384, 1383>>,
  <<1382, 1381, 1380, 1379, 1378, 1377, 1376, 1375, 1374, 1373, 1372, 1371, 1371, 1370, 1369, 1368, 1367, 1366, 1365, 1364, 1363, 1362, 1361, 1360, 1359>>,
  <<1358, 1358, 1357, 1356, 1355, 1354, 1353, 1352, 1351, 1350, 1349, 1348, 1347, 1346, 1345, 1344, 1343, 1343, 1342, 1341, 1340, 1339, 1338, 1337, 1336>>,
  <<1335, 1334, 1333, 1332, 1331, 1330, 1329, 1328, 1327, 1326, 1326, 1325, 1324, 1323, 1322, 1321, 1320, 1319, 1318, 1317, 1316, 1315, 1314, 1313, 1312>>,
  <<1311, 1310, 1309, 1308, 1308, 1307, 1306, 1305, 1304, 1303, 1302, 1301, 1300, 1299, 1298, 1297, 1296, 1295, 1294, 1293, 1292, 1291, 1290, 1289, 1288>>,
  <<1287, 1287, 1286, 1285, 1284, 1283, 1282, 1281, 1280, 1279, 1278, 1277, 1276, 1275, 1274, 1273, 1272, 1271, 1270, 1269, 1268, 1267, 1266, 1265, 1264>>,
  <<1263, 1262, 1262, 1261, 1260, 1259, 1258, 1257, 1256, 1255, 1254, 1253, 1252, 1251, 1250, 1249, 1248, 1247, 1246, 1245, 1244, 1243, 1242, 1241, 1240>>,
  <<1239, 1238, 1237, 1236, 1235, 1234, 1233, 1232, 1231, 1231, 1230, 1229, 1228, 1227, 1226, 1225, 1224, 1223, 1222, 1221, 1220, 1219, 1218, 1217, 1216>>,
  <<1215, 1214, 1213, 1212, 1211, 1210, 1209, 1208, 1207, 1206, 1205, 1204, 1203, 1202, 1201, 1200, 1199, 1198, 1197, 1196, 1195, 1194, 1193, 1192, 1191>>,
  <<1190, 1189, 1188, 1187, 1186, 1186, 1185, 1184, 1183, 1182, 1181, 1180, 1179, 1178, 1177, 1176, 1175, 1174, 1173, 1172, 1171, 1170, 1169, 1168, 1167>>,
  <<1166, 1165, 1164, 1163, 1162, 1161, 1160, 1159, 1158, 1157, 1156, 1155, 1154, 1153, 1152, 1151, 1150, 1149, 1148, 1147, 1146, 1145, 1144, 1143, 1142>>,
  <<1141, 1140, 1139, 1138, 1137, 1136, 1135, 1134, 1133, 1132, 1131, 1130, 1129, 1128, 1127, 1126, 1125, 1124, 1123, 1122, 1121, 1120, 1119, 1118, 1117>>,
  <<1116, 1115, 1114, 1113, 1112, 1111, 1110, 1109, 1108, 1107, 1106, 1105, 1104, 1103, 1102, 1101, 1100, 1099, 1098, 1097, 1096, 1095, 1094, 1093, 1092>>,
  <<1091, 1090, 1089, 1088, 1087, 1086, 1085, 1084, 1083, 1082, 1082, 1081, 1080, 1079, 1078, 1077, 1076, 1075, 1074, 1073, 1072, 1071, 1070, 1069, 1068>>,
  <<1067, 1066, 1065, 1064, 1063, 1062, 1061, 1060, 1059, 1058, 1057, 1056, 1055, 1054, 1053, 1052, 1051, 1050, 1049, 1048, 1047, 1046, 1045, 1044, 1043>>,
  <<1042, 1041, 1040, 1039, 1038, 1037, 1036, 1035, 1034, 1033, 1032, 1031, 1030, 1029, 1028, 1027, 1026, 1025, 1024, 1023, 1022, 1021, 1020, 1019, 1018>>,
  <<1017, 1016, 1015, 1014, 1013, 1012, 1011, 1010, 1009, 1008, 1007, 1006, 1005, 1004, 1003, 1002, 1001, 1000, 999, 998, 997, 996, 995, 994, 993>>,
  <<992, 991, 990, 989, 988, 987, 986, 985, 984, 983, 982, 981, 980, 979, 978, 977, 976, 975, 974, 973, 972, 971, 970, 969, 968>>,
  <<967, 966, 965, 964, 963, 962, 961, 960, 959, 958, 957, 956, 955, 954, 953, 952, 951, 950, 949, 948, 947, 946, 945, 944, 943>>,
  <<942, 941, 940, 939, 938, 937, 936, 935, 934, 933, 932, 931, 930, 929, 928, 927, 926, 925, 924, 923, 922, 921, 920, 919, 918>>,
  <<917, 916, 915, 914, 913, 912, 911, 910, 909, 908, 907, 906, 905, 904, 903, 902, 901, 900, 899, 898, 897, 896, 895, 894, 893>>,
  <<892, 891, 890, 889, 888, 887, 886, 885, 884, 883, 882, 881, 880, 879, 878, 877, 876, 875, 874, 873, 872, 871, 870, 869, 868>>,
  <<867, 866, 865, 864, 863, 862, 861, 860, 859, 858, 857, 856, 855, 854, 853, 852, 851, 850, 849, 848, 847, 846, 845, 844, 843>>,
  <<842, 841, 840, 839, 838, 837, 836, 835, 834, 833, 832, 831, 830, 829, 828, 827, 826, 825, 825, 824, 823, 822, 821, 820, 819>>,
  <<818, 817, 816, 815, 814, 813, 812, 811, 810, 809, 808, 807, 806, 805, 804, 803, 802, 801, 800, 799, 798, 797, 796, 795, 794>>,
  <<793, 792, 791, 790, 789, 788, 787, 786, 785, 784, 783, 782, 781, 780, 779, 778, 777, 776, 776, 775, 774, 773, 772, 771, 770>>,
  <<769, 768, 767, 766, 765, 764, 763, 762, 761, 760, 759, 758, 757, 756, 755, 754, 753, 752, 751, 750, 749, 748, 747, 746, 745>>,
  <<744, 743, 743, 742, 741, 740, 739, 738, 737, 736, 735, 734, 733, 732, 731, 730, 729, 728, 727, 726, 725, 724, 723, 722, 721>>,
  <<720, 719, 718, 717, 717, 716, 715, 714, 713, 712, 711, 710, 709, 708, 707, 706, 705, 704, 703, 702, 701, 700, 699, 698, 697>>,
  <<696, 696, 695, 694, 693, 692, 691, 690, 689, 688, 687, 686, 685, 684, 683, 682, 681, 680, 679, 678, 677, 677, 676, 675, 674>>,
  <<673, 672, 671, 670, 669, 668, 667, 666, 665, 664, 663, 662, 661, 660, 660, 659, 658, 657, 656, 655, 654, 653, 652, 651, 650>>,
  <<649, 648, 647, 646, 645, 645, 644, 643, 642, 641, 640, 639, 638, 637, 636, 635, 634, 633, 632, 631, 631, 630, 629, 628, 627>>,
  <<626, 625, 624, 623, 622, 621, 620, 619, 619, 618, 617, 616, 615, 614, 613, 612, 611, 610, 609, 608, 607, 607, 606, 605, 604>>,
  <<603, 602, 601, 600, 599, 598, 597, 596, 596, 595, 594, 593, 592, 591, 590, 589, 588, 587, 586, 585, 585, 584, 583, 582, 581>>,
  <<580, 579, 578, 577, 576, 576, 575, 574, 573, 572, 571, 570, 569, 568, 567, 566, 566, 565, 564, 563, 562, 561, 560, 559, 558>>,
  <<557, 557, 556, 555, 554, 553, 552, 551, 550, 549, 549, 548, 547, 546, 545, 544, 543, 542, 541, 541, 540, 539, 538, 537, 536>>,
  <<535, 534, 533, 533, 532, 531, 530, 529, 528, 527, 526, 525, 525, 524, 523, 522, 521, 520, 519, 518, 518, 517, 516, 515, 514>>,
  <<513, 512, 511, 511, 510, 509, 508, 507, 506, 505, 505, 504, 503, 502, 501, 500, 499, 498, 498, 497, 496, 495, 494, 493, 492>>,
  <<492, 491, 490, 489, 488, 487, 486, 486, 485, 484, 483, 482, 481, 480, 480, 479, 478, 477, 476, 475, 474, 474, 473, 472, 471>>,
  <<470, 469, 468, 468, 467, 466, 465, 464, 463, 463, 462, 461, 460, 459, 458, 458, 457, 456, 455, 454, 453, 452, 452, 451, 450>>,
  <<449, 448, 447, 447, 446, 445, 444, 443, 442, 442, 441, 440, 439, 438, 437, 437, 436, 435, 434, 433, 433, 432, 431, 430, 429>>,
  <<428, 428, 427, 426, 425, 424, 424, 423, 422, 421, 420, 419, 419, 418, 417, 416, 415, 415, 414, 413, 412, 411, 411, 410, 409>>,
  <<408, 407, 406, 406, 405, 404, 403, 402, 402, 401, 400, 399, 398, 398, 397, 396, 395, 394, 394, 393, 392, 391, 391, 390, 389>>,
  <<388, 387, 387, 386, 385, 384, 383, 383, 382, 381, 380, 379, 379, 378, 377, 376, 376, 375, 374, 373, 372, 372, 371, 370, 369>>,
  <<369, 368, 367, 366, 365, 365, 364, 363, 362, 362, 361, 360, 359, 359, 358, 357, 356, 355, 355, 354, 353, 352, 352, 351, 350>>,
  <<349, 349, 348, 347, 346, 346, 345, 344, 343, 343, 342, 341, 340, 340, 339, 338, 337, 337, 336, 335, 334, 334, 333, 332, 331>>,
  <<331, 330, 329, 328, 328, 327, 326, 325, 325, 324, 323, 322, 322, 321, 320, 320, 319, 318, 317, 317, 316, 315, 314, 314, 313>>,
  <<312, 312, 311, 310, 309, 309, 308, 307, 306, 306, 305, 304, 304, 303, 302, 301, 301, 300, 299, 299, 298, 297, 296, 296, 295>>,
  <<294, 294, 293, 292, 291, 291, 290, 289, 289, 288, 287, 287, 286, 285, 284, 284, 283, 282, 282, 281, 280, 280, 279, 278, 278>>,
  <<277, 276, 275, 275, 274, 273, 273, 272, 271, 271, 270, 269, 269, 268, 267, 267, 266, 265, 264, 264, 263, 262, 262, 261, 260>>,
  <<260, 259, 258, 258, 257, 256, 256, 255, 254, 254, 253, 252, 252, 251, 250, 250, 249, 248, 248, 247, 246, 246, 245, 245, 244>>,
  <<243, 243, 242, 241, 241, 240, 239, 239, 238, 237, 237, 236, 235, 235, 234, 233, 233, 232, 232, 231, 230, 230, 229, 228, 228>>,
  <<227, 226, 226, 225, 225, 224, 223, 223, 222, 221, 221, 220, 220, 219, 218, 218, 217, 216, 216, 215, 215, 214, 213, 213, 212>>,
  <<211, 211, 210, 210, 209, 208, 208, 207, 207, 206, 205, 205, 204, 204, 203, 202, 202, 201, 201, 200, 199, 199, 198, 198, 197>>,
  <<196, 196, 195, 195, 194, 193, 193, 192, 192, 191, 190, 190, 189, 189, 188, 188, 187, 186, 186, 185, 185, 184, 183, 183, 182>>,
  <<182, 181, 181, 180, 179, 179, 178, 178, 177, 177, 176, 175, 175, 174, 174, 173, 173, 172, 172, 171, 170, 170, 169, 169, 168>>,
  <<168, 167, 167, 166, 165, 165, 164, 164, 163, 163, 162, 162, 161, 160, 160, 159, 159, 158, 158, 157, 157, 156, 156, 155, 155>>,
  <<154, 153, 153, 152, 152, 151, 151, 150, 150, 149, 149, 148, 148, 147, 147, 146, 146, 145, 145, 144, 144, 143, 142, 142, 141>>,
  <<141, 140, 140, 139, 139, 138, 138, 137, 137, 136, 136, 135, 135, 134, 134, 133, 133, 132, 132, 131, 131, 130, 130, 129, 129>>,
  <<128, 128, 127, 127, 126, 126, 125, 125, 125, 124, 124, 123, 123, 122, 122, 121, 121, 120, 120, 119, 119, 118, 118, 117, 117>>,
  <<116, 116, 116, 115, 115, 114, 114, 113, 113, 112, 112, 111, 111, 110, 110, 110, 109, 109, 108, 108, 107, 107, 106, 106, 105>>,
  <<105, 105, 104, 104, 103, 103, 102, 102, 101, 101, 101, 100, 100, 99, 99, 98, 98, 98, 97, 97, 96, 96, 95, 95, 95>>,
  <<94, 94, 93, 93, 92, 92, 92, 91, 91, 90, 90, 90, 89, 89, 88, 88, 87, 87, 87, 86, 86, 85, 85, 85, 84>>,
  <<84, 83, 83, 83, 82, 82, 81, 81, 81, 80, 80, 79, 79, 79, 78, 78, 78, 77, 77, 76, 76, 76, 75, 75, 74>>,
  <<74, 74, 73, 73, 73, 72, 72, 71, 71, 71, 70, 70, 70, 69, 69, 69, 68, 68, 67, 67, 67, 66, 66, 66, 65>>,
  <<65, 65, 64, 64, 64, 63, 63, 62, 62, 62, 61, 61, 61, 60, 60, 60, 59, 59, 59, 58, 58, 58, 57, 57, 57>>,
  <<56, 56, 56, 55, 55, 55, 54, 54, 54, 53, 53, 53, 52, 52, 52, 52, 51, 51, 51, 50, 50, 50, 49, 49, 49>>,
  <<48, 48, 48, 47, 47, 47, 47, 46, 46, 46, 45, 45, 45, 44, 44, 44, 44, 43, 43, 43, 42, 42, 42, 42, 41>>,
  <<41, 41, 40, 40, 40, 40, 39, 39, 39, 39, 38, 38, 38, 37, 37, 37, 37, 36, 36, 36, 36, 35, 35, 35, 34>>,
  <<34, 34, 34, 33, 33, 33, 33, 32, 32, 32, 32, 31, 31, 31, 31, 30, 30, 30, 30, 29, 29, 29, 29, 29, 28>>,
  <<28, 28, 28, 27, 27, 27, 27, 26, 26, 26, 26, 26, 25, 25, 25, 25, 24, 24, 24, 24, 24, 23, 23, 23, 23>>,
  <<22, 22, 22, 22, 22, 21, 21, 21, 21, 21, 20, 20, 20, 20, 20, 19, 19, 19, 19, 19, 18, 18, 18, 18, 18>>,
  <<18, 17, 17, 17, 17, 17, 16, 16, 16, 16, 16, 16, 15, 15, 15, 15, 15, 14, 14, 14, 14, 14, 14, 13, 13>>,
  <<13, 13, 13, 13, 13, 12, 12, 12, 12, 12, 12, 11, 11, 11, 11, 11, 11, 11, 10, 10, 10, 10, 10, 10, 10>>,
  <<9, 9, 9, 9, 9, 9, 9, 8, 8, 8, 8, 8, 8, 8, 8, 7, 7, 7, 7, 7, 7, 7, 7, 7, 6>>,
  <<6, 6, 6, 6, 6, 6, 6, 6, 5, 5, 5, 5, 5, 5, 5, 5, 5, 5, 4, 4, 4, 4, 4, 4, 4>>,
  <<4, 4, 4, 4, 3, 3, 3, 3, 3, 3, 3, 3, 3, 3, 3, 3, 3, 2, 2, 2, 2, 2, 2, 2, 2>>,
  <<2, 2, 2, 2, 2, 2, 2, 2, 1, 1, 1, 1, 1, 1, 1, 1, 1, 1, 1, 1, 1, 1, 1, 1, 1>>,
  <<1, 1, 1, 1, 1, 1, 0, 0, 0, 0, 0, 0, 0, 0, 0, 0, 0, 0, 0, 0, 0, 0, 0, 0, 0>>,
  <<0, 0, 0, 0, 0, 0, 0, 0, 0, 0, 0, 0, 0, 0, 0, 0, 0, 0, 0, 0, 0, 0, 0, 0, 0>>,
  <<0, 0, 0, 0, 0, 0, 0, 0, 0, 0, 0, 0, 0, 0, 0, 0, 0, 0, 0, 0, 1, 1, 1, 1, 1>>,
  <<1, 1, 1, 1, 1, 1, 1, 1, 1, 1, 1, 1, 1, 1, 1, 1, 1, 1, 2, 2, 2, 2, 2, 2, 2>>,
  <<2, 2, 2, 2, 2, 2, 2, 2, 2, 3, 3, 3, 3, 3, 3, 3, 3, 3, 3, 3, 3, 3, 4, 4, 4>>,
  <<4, 4, 4, 4, 4, 4, 4, 4, 5, 5, 5, 5, 5, 5, 5, 5, 5, 5, 6, 6, 6, 6, 6, 6, 6>>,
  <<6, 6, 7, 7, 7, 7, 7, 7, 7, 7, 8, 8, 8, 8, 8, 8, 8, 8, 9, 9, 9, 9, 9, 9, 9>>,
  <<9, 10, 10, 10, 10, 10, 10, 10, 11, 11, 11, 11, 11, 11, 11, 12, 12, 12, 12, 12, 12, 13, 13, 13, 13>>,
  <<13, 13, 14, 14, 14, 14, 14, 14, 15, 15, 15, 15, 15, 15, 16, 16, 16, 16, 16, 16, 17, 17, 17, 17, 17>>,
  <<18, 18, 18, 18, 18, 18, 19, 19, 19, 19, 19, 20, 20, 20, 20, 20, 21, 21, 21, 21, 21, 22, 22, 22, 22>>,
  <<23, 23, 23, 23, 23, 24, 24, 24, 24, 24, 25, 25, 25, 25, 26, 26, 26, 26, 26, 27, 27, 27, 27, 28, 28>>,
  <<28, 28, 29, 29, 29, 29, 30, 30, 30, 30, 30, 31, 31, 31, 31, 32, 32, 32, 32, 33, 33, 33, 34, 34, 34>>,
  <<34, 35, 35, 35, 35, 36, 36, 36, 36, 37, 37, 37, 37, 38, 38, 38, 39, 39, 39, 39, 40, 40, 40, 41, 41>>,
  <<41, 41, 42, 42, 42, 43, 43, 43, 43, 44, 44, 44, 45, 45, 45, 45, 46, 46, 46, 47, 47, 47, 48, 48, 48>>,
  <<48, 49, 49, 49, 50, 50, 50, 51, 51, 51, 52, 52, 52, 53, 53, 53, 54, 54, 54, 54, 55, 55, 55, 56, 56>>,
  <<56, 57, 57, 57, 58, 58, 58, 59, 59, 59, 60, 60, 60, 61, 61, 62, 62, 62, 63, 63, 63, 64, 64, 64, 65>>,
  <<65, 65, 66, 66, 66, 67, 67, 68, 68, 68, 69, 69, 69, 70, 70, 70, 71, 71, 72, 72, 72, 73, 73, 73, 74>>,
  <<74, 75, 75, 75, 76, 76, 76, 77, 77, 78, 78, 78, 79, 79, 80, 80, 80, 81, 81, 82, 82, 82, 83, 83, 84>>,
  <<84, 84, 85, 85, 86, 86, 86, 87, 87, 88, 88, 88, 89, 89, 90, 90, 90, 91, 91, 92, 92, 93, 93, 93, 94>>,
  <<94, 95, 95, 96, 96, 96, 97, 97, 98, 98, 99, 99, 99, 100, 100, 101, 101, 102, 102, 102, 103, 103, 104, 104, 105>>,
  <<105, 106, 106, 106, 107, 107, 108, 108, 109, 109, 110, 110, 111, 111, 111, 112, 112, 113, 113, 114, 114, 115, 115, 116, 116>>,
  <<117, 117, 117, 118, 118, 119, 119, 120, 120, 121, 121, 122, 122, 123, 123, 124, 124, 125, 125, 126, 126, 127, 127, 128, 128>>,
  <<129, 129, 130, 130, 131, 131, 131, 132, 132, 133, 133, 134, 134, 135, 135, 136, 136, 137, 138, 138, 139, 139, 140, 140, 141>>,
  <<141, 142, 142, 143, 143, 144, 144, 145, 145, 146, 146, 147, 147, 148, 148, 149, 149, 150, 150, 151, 151, 152, 153, 153, 154>>,
  <<154, 155, 155, 156, 156, 157, 157, 158, 158, 159, 160, 160, 161, 161, 162, 162, 163, 163, 164, 164, 165, 166, 166, 167, 167>>,
  <<168, 168, 169, 169, 170, 171, 171, 172, 172, 173, 173, 174, 174, 175, 176, 176, 177, 177, 178, 178, 179, 180, 180, 181, 181>>,
  <<182, 182, 183, 184, 184, 185, 185, 186, 186, 187, 188, 188, 189, 189, 190, 191, 191, 192, 192, 193, 194, 194, 195, 195, 196>>,
  <<196, 197, 198, 198, 199, 199, 200, 201, 201, 202, 202, 203, 204, 204, 205, 205, 206, 207, 207, 208, 209, 209, 210, 210, 211>>,
  <<212, 212, 213, 213, 214, 215, 215, 216, 217, 217, 218, 218, 219, 220, 220, 221, 222, 222, 223, 223, 224, 225, 225, 226, 227>>,
  <<227, 228, 229, 229, 230, 230, 231, 232, 232, 233, 234, 234, 235, 236, 236, 237, 237, 238, 239, 239, 240, 241, 241, 242, 243>>,
  <<243, 244, 245, 245, 246, 247, 247, 248, 249, 249, 250, 251, 251, 252, 253, 253, 254, 255, 255, 256, 257, 257, 258, 259, 259>>,
  <<260, 261, 261, 262, 263, 263, 264, 265, 265, 266, 267, 267, 268, 269, 269, 270, 271, 271, 272, 273, 274, 274, 275, 276, 276>>,
  <<277, 278, 278, 279, 280, 280, 281, 282, 283, 283, 284, 285, 285, 286, 287, 287, 288, 289, 290, 290, 291, 292, 292, 293, 294>>,
  <<294, 295, 296, 297, 297, 298, 299, 299, 300, 301, 302, 302, 303, 304, 304, 305, 306, 307, 307, 308, 309, 309, 310, 311, 312>>,
  <<312, 313, 314, 315, 315, 316, 317, 317, 318, 319, 320, 320, 321, 322, 323, 323, 324, 325, 326, 326, 327, 328, 329, 329, 330>>,
  <<331, 332, 332, 333, 334, 334, 335, 336, 337, 337, 338, 339, 340, 340, 341, 342, 343, 343, 344, 345, 346, 347, 347, 348, 349>>,
  <<350, 350, 351, 352, 353, 353, 354, 355, 356, 356, 357, 358, 359, 359, 360, 361, 362, 363, 363, 364, 365, 366, 366, 367, 368>>,
  <<369, 370, 370, 371, 372, 373, 373, 374, 375, 376, 377, 377, 378, 379, 380, 380, 381, 382, 383, 384, 384, 385, 386, 387, 388>>,
  <<388, 389, 390, 391, 391, 392, 393, 394, 395, 395, 396, 397, 398, 399, 399, 400, 401, 402, 403, 403, 404, 405, 406, 407, 407>>,
  <<408, 409, 410, 411, 412, 412, 413, 414, 415, 416, 416, 417, 418, 419, 420, 420, 421, 422, 423, 424, 425, 425, 426, 427, 428>>,
  <<429, 429, 430, 431, 432, 433, 434, 434, 435, 436, 437, 438, 439, 439, 440, 441, 442, 443, 443, 444, 445, 446, 447, 448, 448>>,
  <<449, 450, 451, 452, 453, 453, 454, 455, 456, 457, 458, 459, 459, 460, 461, 462, 463, 464, 464, 465, 466, 467, 468, 469, 470>>,
  <<470, 471, 472, 473, 474, 475, 475, 476, 477, 478, 479, 480, 481, 481, 482, 483, 484, 485, 486, 487, 487, 488, 489, 490, 491>>,
  <<492, 493, 493, 494, 495, 496, 497, 498, 499, 499, 500, 501, 502, 503, 504, 505, 506, 506, 507, 508, 509, 510, 511, 512, 513>>,
  <<513, 514, 515, 516, 517, 518, 519, 520, 520, 521, 522, 523, 524, 525, 526, 527, 527, 528, 529, 530, 531, 532, 533, 534, 535>>,
  <<535, 536, 537, 538, 539, 540, 541, 542, 542, 543, 544, 545, 546, 547, 548, 549, 550, 551, 551, 552, 553, 554, 555, 556, 557>>,
  <<558, 559, 559, 560, 561, 562, 563, 564, 565, 566, 567, 568, 568, 569, 570, 571, 572, 573, 574, 575, 576, 577, 578, 578, 579>>,
  <<580, 581, 582, 583, 584, 585, 586, 587, 588, 588, 589, 590, 591, 592, 593, 594, 595, 596, 597, 598, 598, 599, 600, 601, 602>>,
  <<603, 604, 605, 606, 607, 608, 609, 609, 610, 611, 612, 613, 614, 615, 616, 617, 618, 619, 620, 621, 621, 622, 623, 624, 625>>,
  <<626, 627, 628, 629, 630, 631, 632, 633, 634, 634, 635, 636, 637, 638, 639, 640, 641, 642, 643, 644, 645, 646, 647, 648, 648>>,
  <<649, 650, 651, 652, 653, 654, 655, 656, 657, 658, 659, 660, 661, 662, 663, 664, 664, 665, 666, 667, 668, 669, 670, 671, 672>>,
  <<673, 674, 675, 676, 677, 678, 679, 680, 681, 681, 682, 683, 684, 685, 686, 687, 688, 689, 690, 691, 692, 693, 694, 695, 696>>,
  <<697, 698, 699, 700, 700, 701, 702, 703, 704, 705, 706, 707, 708, 709, 710, 711, 712, 713, 714, 715, 716, 717, 718, 719, 720>>,
  <<721, 722, 723, 723, 724, 725, 726, 727, 728, 729, 730, 731, 732, 733, 734, 735, 736, 737, 738, 739, 740, 741, 742, 743, 744>>,
  <<745, 746, 747, 748, 749, 750, 750, 751, 752, 753, 754, 755, 756, 757, 758, 759, 760, 761, 762, 763, 764, 765, 766, 767, 768>>,
  <<769, 770, 771, 772, 773, 774, 775, 776, 777, 778, 779, 780, 781, 782, 783, 784, 785, 785, 786, 787, 788, 789, 790, 791, 792>>,
  <<793, 794, 795, 796, 797, 798, 799, 800, 801, 802, 803, 804, 805, 806, 807, 808, 809, 810, 811, 812, 813, 814, 815, 816, 817>>,
  <<818, 819, 820, 821, 822, 823, 824, 825, 826, 827, 828, 829, 830, 831, 832, 833, 834, 835, 836, 837, 838, 839, 840, 840, 841>>,
  <<842, 843, 844, 845, 846, 847, 848, 849, 850, 851, 852, 853, 854, 855, 856, 857, 858, 859, 860, 861, 862, 863, 864, 865, 866>>,
  <<867, 868, 869, 870, 871, 872, 873, 874, 875, 876, 877, 878, 879, 880, 881, 882, 883, 884, 885, 886, 887, 888, 889, 890, 891>>,
  <<892, 893, 894, 895, 896, 897, 898, 899, 900, 901, 902, 903, 904, 905, 906, 907, 908, 909, 910, 911, 912, 913, 914, 915, 916>>,
  <<917, 918, 919, 920, 921, 922, 923, 924, 925, 926, 927, 928, 929, 930, 931, 932, 933, 934, 935, 936, 937, 938, 939, 940, 941>>,
  <<942, 943, 944, 945, 946, 947, 948, 949, 950, 951, 952, 953, 954, 955, 956, 957, 958, 959, 960, 961, 962, 963, 964, 965, 966>>,
  <<967, 968, 969, 970, 971, 972, 973, 974, 975, 976, 977, 978, 979, 980, 981, 982, 983, 984, 985, 986, 987, 988, 989, 990, 991>>,
  <<992, 993, 994, 995, 996, 997, 998, 999, 1000, 1001, 1002, 1003, 1004, 1005, 1006, 1007, 1008, 1009, 1010, 1011, 1012, 1013, 1014, 1015, 1016>>,
  <<1017, 1018, 1019, 1020, 1021, 1022, 1023, 1024, 1025, 1026, 1027, 1028, 1029, 1030, 1031, 1032, 1033, 1034, 1035, 1036, 1037, 1038, 1039, 1040, 1041>>,
  <<1042, 1043, 1044, 1045, 1046, 1047, 1048, 1049, 1050, 1051, 1052, 1053, 1054, 1055, 1056, 1057, 1058, 1059, 1060, 1061, 1062, 1063, 1064, 1065, 1066>>,
  <<1067, 1068, 1069, 1070, 1071, 1072, 1073, 1074, 1075, 1076, 1077, 1078, 1079, 1080, 1081, 1082, 1083, 1084, 1085, 1086, 1087, 1088, 1089, 1090, 1091>>,
  <<1092, 1093, 1094, 1095, 1096, 1097, 1098, 1099, 1100, 1101, 1102, 1103, 1104, 1105, 1106, 1107, 1108, 1109, 1110, 1111, 1112, 1113, 1114, 1115, 1116>>,
  <<1117, 1118, 1119, 1120, 1121, 1122, 1123, 1123, 1124, 1125, 1126, 1127, 1128, 1129, 1130, 1131, 1132, 1133, 1134, 1135, 1136, 1137, 1138, 1139, 1140>>,
  <<1141, 1142, 1143, 1144, 1145, 1146, 1147, 1148, 1149, 1150, 1151, 1152, 1153, 1154, 1155, 1156, 1157, 1158, 1159, 1160, 1161, 1162, 1163, 1164, 1165>>,
  <<1166, 1167, 1168, 1169, 1170, 1171, 1172, 1173, 1174, 1175, 1176, 1177, 1178, 1179, 1180, 1181, 1182, 1183, 1184, 1185, 1186, 1187, 1188, 1189, 1190>>,
  <<1191, 1192, 1193, 1194, 1195, 1196, 1197, 1198, 1198, 1199, 1200, 1201, 1202, 1203, 1204, 1205, 1206, 1207, 1208, 1209, 1210, 1211, 1212, 1213, 1214>>,
  <<1215, 1216, 1217, 1218, 1219, 1220, 1221, 1222, 1223, 1224, 1225, 1226, 1227, 1228, 1229, 1230, 1231, 1232, 1233, 1234, 1235, 1236, 1237, 1238, 1238>>,
  <<1239, 1240, 1241, 1242, 1243, 1244, 1245, 1246, 1247, 1248, 1249, 1250, 1251, 1252, 1253, 1254, 1255, 1256, 1257, 1258, 1259, 1260, 1261, 1262, 1263>>,
  <<1264, 1265, 1266, 1267, 1268, 1268, 1269, 1270, 1271, 1272, 1273, 1274, 1275, 1276, 1277, 1278, 1279, 1280, 1281, 1282, 1283, 1284, 1285, 1286, 1287>>,
  <<1288, 1289, 1290, 1291, 1292, 1292, 1293, 1294, 1295, 1296, 1297, 1298, 1299, 1300, 1301, 1302, 1303, 1304, 1305, 1306, 1307, 1308, 1309, 1310, 1311>>,
  <<1312, 1312, 1313, 1314, 1315, 1316, 1317, 1318, 1319, 1320, 1321, 1322, 1323, 1324, 1325, 1326, 1327, 1328, 1329, 1330, 1330, 1331, 1332, 1333, 1334>>,
  <<1335, 1336, 1337, 1338, 1339, 1340, 1341, 1342, 1343, 1344, 1345, 1346, 1346, 1347, 1348, 1349, 1350, 1351, 1352, 1353, 1354, 1355, 1356, 1357, 1358>>,
  <<1359, 1360, 1361, 1361, 1362, 1363, 1364, 1365, 1366, 1367, 1368, 1369, 1370, 1371, 1372, 1373, 1374, 1374, 1375, 1376, 1377, 1378, 1379, 1380, 1381>>,
  <<1382, 1383, 1384, 1385, 1386, 1386, 1387, 1388, 1389, 1390, 1391, 1392, 1393, 1394, 1395, 1396, 1397, 1398, 1398, 1399, 1400, 1401, 1402, 1403, 1404>>,
  <<1405, 1406, 1407, 1408, 1409, 1409, 1410, 1411, 1412, 1413, 1414, 1415, 1416, 1417, 1418, 1419, 1419, 1420, 1421, 1422, 1423, 1424, 1425, 1426, 1427>>,
  <<1428, 1428, 1429, 1430, 1431, 1432, 1433, 1434, 1435, 1436, 1437, 1437, 1438, 1439, 1440, 1441, 1442, 1443, 1444, 1445, 1446, 1446, 1447, 1448, 1449>>,
  <<1450, 1451, 1452, 1453, 1454, 1455, 1455, 1456, 1457, 1458, 1459, 1460, 1461, 1462, 1463, 1463, 1464, 1465, 1466, 1467, 1468, 1469, 1470, 1470, 1471>>,
  <<1472, 1473, 1474, 1475, 1476, 1477, 1478, 1478, 1479, 1480, 1481, 1482, 1483, 1484, 1485, 1485, 1486, 1487, 1488, 1489, 1490, 1491, 1492, 1492, 1493>>,
  <<1494, 1495, 1496, 1497, 1498, 1498, 1499, 1500, 1501, 1502, 1503, 1504, 1505, 1505, 1506, 1507, 1508, 1509, 1510, 1511, 1511, 1512, 1513, 1514, 1515>>,
  <<1516, 1517, 1517, 1518, 1519, 1520, 1521, 1522, 1523, 1523, 1524, 1525, 1526, 1527, 1528, 1528, 1529, 1530, 1531, 1532, 1533, 1534, 1534, 1535, 1536>>,
  <<1537, 1538, 1539, 1539, 1540, 1541, 1542, 1543, 1544, 1545, 1545, 1546, 1547, 1548, 1549, 1550, 1550, 1551, 1552, 1553, 1554, 1555, 1555, 1556, 1557>>,
  <<1558, 1559, 1560, 1560, 1561, 1562, 1563, 1564, 1564, 1565, 1566, 1567, 1568, 1569, 1569, 1570, 1571, 1572, 1573, 1574, 1574, 1575, 1576, 1577, 1578>>,
  <<1578, 1579, 1580, 1581, 1582, 1583, 1583, 1584, 1585, 1586, 1587, 1587, 1588, 1589, 1590, 1591, 1591, 1592, 1593, 1594, 1595, 1595, 1596, 1597, 1598>>,
  <<1599, 1599, 1600, 1601, 1602, 1603, 1603, 1604, 1605, 1606, 1607, 1607, 1608, 1609, 1610, 1611, 1611, 1612, 1613, 1614, 1615, 1615, 1616, 1617, 1618>>,
  <<1618, 1619, 1620, 1621, 1622, 1622, 1623, 1624, 1625, 1626, 1626, 1627, 1628, 1629, 1629, 1630, 1631, 1632, 1633, 1633, 1634, 1635, 1636, 1636, 1637>>,
  <<1638, 1639, 1639, 1640, 1641, 1642, 1643, 1643, 1644, 1645, 1646, 1646, 1647, 1648, 1649, 1649, 1650, 1651, 1652, 1652, 1653, 1654, 1655, 1655, 1656>>,
  <<1657, 1658, 1658, 1659, 1660, 1661, 1661, 1662, 1663, 1664, 1664, 1665, 1666, 1667, 1667, 1668, 1669, 1670, 1670, 1671, 1672, 1673, 1673, 1674, 1675>>,
  <<1676, 1676, 1677, 1678, 1679, 1679, 1680, 1681, 1682, 1682, 1683, 1684, 1684, 1685, 1686, 1687, 1687, 1688, 1689, 1690, 1690, 1691, 1692, 1692, 1693>>,
  <<1694, 1695, 1695, 1696, 1697, 1697, 1698, 1699, 1700, 1700, 1701, 1702, 1702, 1703, 1704, 1705, 1705, 1706, 1707, 1707, 1708, 1709, 1710, 1710, 1711>>,
  <<1712, 1712, 1713, 1714, 1714, 1715, 1716, 1717, 1717, 1718, 1719, 1719, 1720, 1721, 1721, 1722, 1723, 1723, 1724, 1725, 1726, 1726, 1727, 1728, 1728>>,
  <<1729, 1730, 1730, 1731, 1732, 1732, 1733, 1734, 1734, 1735, 1736, 1736, 1737, 1738, 1738, 1739, 1740, 1741, 1741, 1742, 1743, 1743, 1744, 1745, 1745>>,
  <<1746, 1747, 1747, 1748, 1749, 1749, 1750, 1750, 1751, 1752, 1752, 1753, 1754, 1754, 1755, 1756, 1756, 1757, 1758, 1758, 1759, 1760, 1760, 1761, 1762>>,
  <<1762, 1763, 1764, 1764, 1765, 1765, 1766, 1767, 1767, 1768, 1769, 1769, 1770, 1771, 1771, 1772, 1773, 1773, 1774, 1774, 1775, 1776, 1776, 1777, 1778>>,
  <<1778, 1779, 1779, 1780, 1781, 1781, 1782, 1783, 1783, 1784, 1784, 1785, 1786, 1786, 1787, 1788, 1788, 1789, 1789, 1790, 1791, 1791, 1792, 1792, 1793>>,
  <<1794, 1794, 1795, 1795, 1796, 1797, 1797, 1798, 1799, 1799, 1800, 1800, 1801, 1802, 1802, 1803, 1803, 1804, 1804, 1805, 1806, 1806, 1807, 1807, 1808>>,
  <<1809, 1809, 1810, 1810, 1811, 1812, 1812, 1813, 1813, 1814, 1814, 1815, 1816, 1816, 1817, 1817, 1818, 1819, 1819, 1820, 1820, 1821, 1821, 1822, 1823>>,
  <<1823, 1824, 1824, 1825, 1825, 1826, 1826, 1827, 1828, 1828, 1829, 1829, 1830, 1830, 1831, 1832, 1832, 1833, 1833, 1834, 1834, 1835, 1835, 1836, 1836>>,
  <<1837, 1838, 1838, 1839, 1839, 1840, 1840, 1841, 1841, 1842, 1842, 1843, 1844, 1844, 1845, 1845, 1846, 1846, 1847, 1847, 1848, 1848, 1849, 1849, 1850>>,
  <<1850, 1851, 1851, 1852, 1853, 1853, 1854, 1854, 1855, 1855, 1856, 1856, 1857, 1857, 1858, 1858, 1859, 1859, 1860, 1860, 1861, 1861, 1862, 1862, 1863>>,
  <<1863, 1864, 1864, 1865, 1865, 1866, 1866, 1867, 1867, 1868, 1868, 1869, 1869, 1870, 1870, 1871, 1871, 1872, 1872, 1873, 1873, 1874, 1874, 1875, 1875>>,
  <<1876, 1876, 1877, 1877, 1878, 1878, 1879, 1879, 1880, 1880, 1880, 1881, 1881, 1882, 1882, 1883, 1883, 1884, 1884, 1885, 1885, 1886, 1886, 1887, 1887>>,
  <<1887, 1888, 1888, 1889, 1889, 1890, 1890, 1891, 1891, 1892, 1892, 1892, 1893, 1893, 1894, 1894, 1895, 1895, 1896, 1896, 1897, 1897, 1897, 1898, 1898>>,
  <<1899, 1899, 1900, 1900, 1900, 1901, 1901, 1902, 1902, 1903, 1903, 1903, 1904, 1904, 1905, 1905, 1906, 1906, 1906, 1907, 1907, 1908, 1908, 1909, 1909>>,
  <<1909, 1910, 1910, 1911, 1911, 1911, 1912, 1912, 1913, 1913, 1914, 1914, 1914, 1915, 1915, 1916, 1916, 1916, 1917, 1917, 1918, 1918, 1918, 1919, 1919>>,
  <<1920, 1920, 1920, 1921, 1921, 1921, 1922, 1922, 1923, 1923, 1923, 1924, 1924, 1925, 1925, 1925, 1926, 1926, 1926, 1927, 1927, 1928, 1928, 1928, 1929>>,
  <<1929, 1929, 1930, 1930, 1931, 1931, 1931, 1932, 1932, 1932, 1933, 1933, 1933, 1934, 1934, 1934, 1935, 1935, 1936, 1936, 1936, 1937, 1937, 1937, 1938>>,
  <<1938, 1938, 1939, 1939, 1939, 1940, 1940, 1940, 1941, 1941, 1941, 1942, 1942, 1942, 1943, 1943, 1943, 1944, 1944, 1944, 1945, 1945, 1945, 1946, 1946>>,
  <<1946, 1947, 1947, 1947, 1948, 1948, 1948, 1949, 1949, 1949, 1950, 1950, 1950, 1950, 1951, 1951, 1951, 1952, 1952, 1952, 1953, 1953, 1953, 1954, 1954>>,
  <<1954, 1954, 1955, 1955, 1955, 1956, 1956, 1956, 1957, 1957, 1957, 1957, 1958, 1958, 1958, 1959, 1959, 1959, 1959, 1960, 1960, 1960, 1961, 1961, 1961>>,
  <<1961, 1962, 1962, 1962, 1962, 1963, 1963, 1963, 1964, 1964, 1964, 1964, 1965, 1965, 1965, 1965, 1966, 1966, 1966, 1966, 1967, 1967, 1967, 1967, 1968>>,
  <<1968, 1968, 1968, 1969, 1969, 1969, 1969, 1970, 1970, 1970, 1970, 1971, 1971, 1971, 1971, 1972, 1972, 1972, 1972, 1973, 1973, 1973, 1973, 1973, 1974>>,
  <<1974, 1974, 1974, 1975, 1975, 1975, 1975, 1975, 1976, 1976, 1976, 1976, 1977, 1977, 1977, 1977, 1977, 1978, 1978, 1978, 1978, 1978, 1979, 1979, 1979>>,
  <<1979, 1979, 1980, 1980, 1980, 1980, 1980, 1981, 1981, 1981, 1981, 1981, 1982, 1982, 1982, 1982, 1982, 1983, 1983, 1983, 1983, 1983, 1983, 1984, 1984>>,
  <<1984, 1984, 1984, 1985, 1985, 1985, 1985, 1985, 1985, 1986, 1986, 1986, 1986, 1986, 1986, 1987, 1987, 1987, 1987, 1987, 1987, 1988, 1988, 1988, 1988>>,
  <<1988, 1988, 1988, 1989, 1989, 1989, 1989, 1989, 1989, 1990, 1990, 1990, 1990, 1990, 1990, 1990, 1990, 1991, 1991, 1991, 1991, 1991, 1991, 1991, 1992>>,
  <<1992, 1992, 1992, 1992, 1992, 1992, 1992, 1993, 1993, 1993, 1993, 1993, 1993, 1993, 1993, 1994, 1994, 1994, 1994, 1994, 1994, 1994, 1994, 1994, 1994>>,
  <<1995, 1995, 1995, 1995, 1995, 1995, 1995, 1995, 1995, 1995, 1996, 1996, 1996, 1996, 1996, 1996, 1996, 1996, 1996, 1996, 1996, 1997, 1997, 1997, 1997>>,
  <<1997, 1997, 1997, 1997, 1997, 1997, 1997, 1997, 1997, 1998, 1998, 1998, 1998, 1998, 1998, 1998, 1998, 1998, 1998, 1998, 1998, 1998, 1998, 1998, 1998>>,
  <<1999, 1999, 1999, 1999, 1999, 1999, 1999, 1999, 1999, 1999, 1999, 1999, 1999, 1999, 1999, 1999, 1999, 1999, 1999, 1999, 1999, 1999, 1999, 2000, 2000>>,
  <<2000, 2000, 2000, 2000, 2000, 2000, 2000, 2000, 2000, 2000, 2000, 2000, 2000, 2000, 2000, 2000, 2000, 2000, 2000, 2000, 2000, 2000, 2000, 2000, 2000>>,
  <<2000, 2000, 2000, 2000, 2000, 2000, 2000, 2000, 2000, 2000, 2000, 2000, 2000, 2000, 2000, 2000, 2000, 2000, 2000, 2000, 2000, 2000, 2000, 2000, 2000>>,
  <<2000, 2000, 2000, 2000, 2000, 2000, 2000, 2000, 2000, 2000, 2000, 1999, 1999, 1999, 1999, 1999, 1999, 1999, 1999, 1999, 1999, 1999, 1999, 1999, 1999>>,
  <<1999, 1999, 1999, 1999, 1999, 1999, 1999, 1999, 1999, 1998, 1998, 1998, 1998, 1998, 1998, 1998, 1998, 1998, 1998, 1998, 1998, 1998, 1998, 1998, 1998>>,
  <<1997, 1997, 1997, 1997, 1997, 1997, 1997, 1997, 1997, 1997, 1997, 1997, 1997, 1996, 1996, 1996, 1996, 1996, 1996, 1996, 1996, 1996, 1996, 1996, 1995>>,
  <<1995, 1995, 1995, 1995, 1995, 1995, 1995, 1995, 1995, 1994, 1994, 1994, 1994, 1994, 1994, 1994, 1994, 1994, 1994, 1993, 1993, 1993, 1993, 1993, 1993>>,
  <<1993, 1993, 1992, 1992, 1992, 1992, 1992, 1992, 1992, 1992, 1991, 1991, 1991, 1991, 1991, 1991, 1991, 1990, 1990, 1990, 1990, 1990, 1990, 1990, 1990>>,
  <<1989>>
  >>

\* Entry i of CosTable is S + cos(i/S) rounded to the format, for i in 0..8000.
CosTable == <<
  <<2000, 2000, 2000, 2000, 2000, 2000, 2000, 2000, 2000, 2000, 2000, 2000, 2000, 2000, 2000, 2000, 2000, 2000, 2000, 2000, 2000, 2000, 2000, 2000, 2000>>,
  <<2000, 2000, 2000, 2000, 2000, 2000, 2000, 1999, 1999, 1999, 1999, 1999, 1999, 1999, 1999, 1999, 1999, 1999, 1999, 1999, 1999, 1999, 1999, 1999, 1999>>,
  <<1999, 1999, 1999, 1999, 1999, 1998, 1998, 1998, 1998, 1998, 1998, 1998, 1998, 1998, 1998, 1998, 1998, 1998, 1998, 1998, 1998, 1997, 1997, 1997, 1997>>,
  <<1997, 1997, 1997, 1997, 1997, 1997, 1997, 1997, 1997, 1996, 1996, 1996, 1996, 1996, 1996, 1996, 1996, 1996, 1996, 1996, 1995, 1995, 1995, 1995, 1995>>,
  <<1995, 1995, 1995, 1995, 1995, 1994, 1994, 1994, 1994, 1994, 1994, 1994, 1994, 1994, 1994, 1993, 1993, 1993, 1993, 1993, 1993, 1993, 1993, 1992, 1992>>,
  <<1992, 1992, 1992, 1992, 1992, 1992, 1991, 1991, 1991, 1991, 1991, 1991, 1991, 1990, 1990, 1990, 1990, 1990, 1990, 1990, 1990, 1989, 1989, 1989, 1989>>,
  <<1989, 1989, 1988, 1988, 1988, 1988, 1988, 1988, 1988, 1987, 1987, 1987, 1987, 1987, 1987, 1986, 1986, 1986, 1986, 1986, 1986, 1985, 1985, 1985, 1985>>,
  <<1985, 1985, 1984, 1984, 1984, 1984, 1984, 1983, 1983, 1983, 1983, 1983, 1983, 1982, 1982, 1982, 1982, 1982, 1981, 1981, 1981, 1981, 1981, 1980, 1980>>,
  <<1980, 1980, 1980, 1979, 1979, 1979, 1979, 1979, 1978, 1978, 1978, 1978, 1978, 1977, 1977, 1977, 1977, 1977, 1976, 1976, 1976, 1976, 1975, 1975, 1975>>,
  <<1975, 1975, 1974, 1974, 1974, 1974, 1973, 1973, 1973, 1973, 1973, 1972, 1972, 1972, 1972, 1971, 1971, 1971, 1971, 1970, 1970, 1970, 1970, 1969, 1969>>,
  <<1969, 1969, 1968, 1968, 1968, 1968, 1967, 1967, 1967, 1967, 1966, 1966, 1966, 1966, 1965, 1965, 1965, 1965, 1964, 1964, 1964, 1964, 1963, 1963, 1963>>,
  <<1962, 1962, 1962, 1962, 1961, 1961, 1961, 1961, 1960, 1960, 1960, 1959, 1959, 1959, 1959, 1958, 1958, 1958, 1957, 1957, 1957, 1957, 1956, 1956, 1956>>,
  <<1955, 1955, 1955, 1954, 1954, 1954, 1954, 1953, 1953, 1953, 1952, 1952, 1952, 1951, 1951, 1951, 1950, 1950, 1950, 1950, 1949, 1949, 1949, 1948, 1948>>,
  <<1948, 1947, 1947, 1947, 1946, 1946, 1946, 1945, 1945, 1945, 1944, 1944, 1944, 1943, 1943, 1943, 1942, 1942, 1942, 1941, 1941, 1941, 1940, 1940, 1940>>,
  <<1939, 1939, 1939, 1938, 1938, 1938, 1937, 1937, 1937, 1936, 1936, 1936, 1935, 1935, 1934, 1934, 1934, 1933, 1933, 1933, 1932, 1932, 1932, 1931, 1931>>,
  <<1931, 1930, 1930, 1929, 1929, 1929, 1928, 1928, 1928, 1927, 1927, 1926, 1926, 1926, 1925, 1925, 1925, 1924, 1924, 1923, 1923, 1923, 1922, 1922, 1921>>,
  <<1921, 1921, 1920, 1920, 1919, 1919, 1919, 1918, 1918, 1918, 1917, 1917, 1916, 1916, 1916, 1915, 1915, 1914, 1914, 1913, 1913, 1913, 1912, 1912, 1911>>,
  <<1911, 1911, 1910, 1910, 1909, 1909, 1909, 1908, 1908, 1907, 1907, 1906, 1906, 1906, 1905, 1905, 1904, 1904, 1903, 1903, 1903, 1902, 1902, 1901, 1901>>,
  <<1900, 1900, 1900, 1899, 1899, 1898, 1898, 1897, 1897, 1896, 1896, 1896, 1895, 1895, 1894, 1894, 1893, 1893, 1892, 1892, 1892, 1891, 1891, 1890, 1890>>,
  <<1889, 1889, 1888, 1888, 1887, 1887, 1887, 1886, 1886, 1885, 1885, 1884, 1884, 1883, 1883, 1882, 1882, 1881, 1881, 1880, 1880, 1879, 1879, 1879, 1878>>,
  <<1878, 1877, 1877, 1876, 1876, 1875, 1875, 1874, 1874, 1873, 1873, 1872, 1872, 1871, 1871, 1870, 1870, 1869, 1869, 1868, 1868, 1867, 1867, 1866, 1866>>,
  <<1865, 1865, 1864, 1864, 1863, 1863, 1862, 1862, 1861, 1861, 1860, 1860, 1859, 1859, 1858, 1858, 1857, 1857, 1856, 1856, 1855, 1855, 1854, 1854, 1853>>,
  <<1853, 1852, 1851, 1851, 1850, 1850, 1849, 1849, 1848, 1848, 1847, 1847, 1846, 1846, 1845, 1845, 1844, 1844, 1843, 1842, 1842, 1841, 1841, 1840, 1840>>,
  <<1839, 1839, 1838, 1838, 1837, 1836, 1836, 1835, 1835, 1834, 1834, 1833, 1833, 1832, 1831, 1831, 1830, 1830, 1829, 1829, 1828, 1828, 1827, 1826, 1826>>,
  <<1825, 1825, 1824, 1824, 1823, 1823, 1822, 1821, 1821, 1820, 1820, 1819, 1819, 1818, 1817, 1817, 1816, 1816, 1815, 1814, 1814, 1813, 1813, 1812, 1812>>,
  <<1811, 1810, 1810, 1809, 1809, 1808, 1807, 1807, 1806, 1806, 1805, 1804, 1804, 1803, 1803, 1802, 1801, 1801, 1800, 1800, 1799, 1798, 1798, 1797, 1797>>,
  <<1796, 1795, 1795, 1794, 1794, 1793, 1792, 1792, 1791, 1791, 1790, 1789, 1789, 1788, 1788, 1787, 1786, 1786, 1785, 1784, 1784, 1783, 1783, 1782, 1781>>,
  <<1781, 1780, 1779, 1779, 1778, 1778, 1777, 1776, 1776, 1775, 1774, 1774, 1773, 1773, 1772, 1771, 1771, 1770, 1769, 1769, 1768, 1767, 1767, 1766, 1765>>,
  <<1765, 1764, 1764, 1763, 1762, 1762, 1761, 1760, 1760, 1759, 1758, 1758, 1757, 1756, 1756, 1755, 1754, 1754, 1753, 1752, 1752, 1751, 1750, 1750, 1749>>,
  <<1748, 1748, 1747, 1747, 1746, 1745, 1745, 1744, 1743, 1743, 1742, 1741, 1740, 1740, 1739, 1738, 1738, 1737, 1736, 1736, 1735, 1734, 1734, 1733, 1732>>,
  <<1732, 1731, 1730, 1730, 1729, 1728, 1728, 1727, 1726, 1726, 1725, 1724, 1723, 1723, 1722, 1721, 1721, 1720, 1719, 1719, 1718, 1717, 1717, 1716, 1715>>,
  <<1714, 1714, 1713, 1712, 1712, 1711, 1710, 1710, 1709, 1708, 1707, 1707, 1706, 1705, 1705, 1704, 1703, 1702, 1702, 1701, 1700, 1700, 1699, 1698, 1697>>,
  <<1697, 1696, 1695, 1695, 1694, 1693, 1692, 1692, 1691, 1690, 1689, 1689, 1688, 1687, 1687, 1686, 1685, 1684, 1684, 1683, 1682, 1681, 1681, 1680, 1679>>,
  <<1679, 1678, 1677, 1676, 1676, 1675, 1674, 1673, 1673, 1672, 1671, 1670, 1670, 1669, 1668, 1667, 1667, 1666, 1665, 1664, 1664, 1663, 1662, 1661, 1661>>,
  <<1660, 1659, 1658, 1658, 1657, 1656, 1655, 1655, 1654, 1653, 1652, 1652, 1651, 1650, 1649, 1649, 1648, 1647, 1646, 1646, 1645, 1644, 1643, 1643, 1642>>,
  <<1641, 1640, 1639, 1639, 1638, 1637, 1636, 1636, 1635, 1634, 1633, 1633, 1632, 1631, 1630, 1629, 1629, 1628, 1627, 1626, 1626, 1625, 1624, 1623, 1622>>,
  <<1622, 1621, 1620, 1619, 1618, 1618, 1617, 1616, 1615, 1615, 1614, 1613, 1612, 1611, 1611, 1610, 1609, 1608, 1607, 1607, 1606, 1605, 1604, 1603, 1603>>,
  <<1602, 1601, 1600, 1599, 1599, 1598, 1597, 1596, 1595, 1595, 1594, 1593, 1592, 1591, 1591, 1590, 1589, 1588, 1587, 1587, 1586, 1585, 1584, 1583, 1582>>,
  <<1582, 1581, 1580, 1579, 1578, 1578, 1577, 1576, 1575, 1574, 1574, 1573, 1572, 1571, 1570, 1569, 1569, 1568, 1567, 1566, 1565, 1564, 1564, 1563, 1562>>,
  <<1561, 1560, 1560, 1559, 1558, 1557, 1556, 1555, 1555, 1554, 1553, 1552, 1551, 1550, 1550, 1549, 1548, 1547, 1546, 1545, 1545, 1544, 1543, 1542, 1541>>,
  <<1540, 1539, 1539, 1538, 1537, 1536, 1535, 1534, 1534, 1533, 1532, 1531, 1530, 1529, 1528, 1528, 1527, 1526, 1525, 1524, 1523, 1523, 1522, 1521, 1520>>,
  <<1519, 1518, 1517, 1517, 1516, 1515, 1514, 1513, 1512, 1511, 1511, 1510, 1509, 1508, 1507, 1506, 1505, 1504, 1504, 1503, 1502, 1501, 1500, 1499, 1498>>,
  <<1498, 1497, 1496, 1495, 1494, 1493, 1492, 1491, 1491, 1490, 1489, 1488, 1487, 1486, 1485, 1485, 1484, 1483, 1482, 1481, 1480, 1479, 1478, 1477, 1477>>,
  <<1476, 1475, 1474, 1473, 1472, 1471, 1470, 1470, 1469, 1468, 1467, 1466, 1465, 1464, 1463, 1462, 1462, 1461, 1460, 1459, 1458, 1457, 1456, 1455, 1454>>,
  <<1454, 1453, 1452, 1451, 1450, 1449, 1448, 1447, 1446, 1446, 1445, 1444, 1443, 1442, 1441, 1440, 1439, 1438, 1437, 1437, 1436, 1435, 1434, 1433, 1432>>,
  <<1431, 1430, 1429, 1428, 1428, 1427, 1426, 1425, 1424, 1423, 1422, 1421, 1420, 1419, 1419, 1418, 1417, 1416, 1415, 1414, 1413, 1412, 1411, 1410, 1409>>,
  <<1408, 1408, 1407, 1406, 1405, 1404, 1403, 1402, 1401, 1400, 1399, 1398, 1398, 1397, 1396, 1395, 1394, 1393, 1392, 1391, 1390, 1389, 1388, 1387, 1386>>,
  <<1386, 1385, 1384, 1383, 1382, 1381, 1380, 1379, 1378, 1377, 1376, 1375, 1374, 1374, 1373, 1372, 1371, 1370, 1369, 1368, 1367, 1366, 1365, 1364, 1363>>,
  <<1362, 1361, 1360, 1360, 1359, 1358, 1357, 1356, 1355, 1354, 1353, 1352, 1351, 1350, 1349, 1348, 1347, 1346, 1346, 1345, 1344, 1343, 1342, 1341, 1340>>,
  <<1339, 1338, 1337, 1336, 1335, 1334, 1333, 1332, 1331, 1330, 1330, 1329, 1328, 1327, 1326, 1325, 1324, 1323, 1322, 1321, 1320, 1319, 1318, 1317, 1316>>,
  <<1315, 1314, 1313, 1312, 1312, 1311, 1310, 1309, 1308, 1307, 1306, 1305, 1304, 1303, 1302, 1301, 1300, 1299, 1298, 1297, 1296, 1295, 1294, 1293, 1292>>,
  <<1292, 1291, 1290, 1289, 1288, 1287, 1286, 1285, 1284, 1283, 1282, 1281, 1280, 1279, 1278, 1277, 1276, 1275, 1274, 1273, 1272, 1271, 1270, 1269, 1268>>,
  <<1267, 1267, 1266, 1265, 1264, 1263, 1262, 1261, 1260, 1259, 1258, 1257, 1256, 1255, 1254, 1253, 1252, 1251, 1250, 1249, 1248, 1247, 1246, 1245, 1244>>,
  <<1243, 1242, 1241, 1240, 1239, 1238, 1238, 1237, 1236, 1235, 1234, 1233, 1232, 1231, 1230, 1229, 1228, 1227, 1226, 1225, 1224, 1223, 1222, 1221, 1220>>,
  <<1219, 1218, 1217, 1216, 1215, 1214, 1213, 1212, 1211, 1210, 1209, 1208, 1207, 1206, 1205, 1204, 1203, 1202, 1201, 1200, 1199, 1198, 1197, 1197, 1196>>,
  <<1195, 1194, 1193, 1192, 1191, 1190, 1189, 1188, 1187, 1186, 1185, 1184, 1183, 1182, 1181, 1180, 1179, 1178, 1177, 1176, 1175, 1174, 1173, 1172, 1171>>,
  <<1170, 1169, 1168, 1167, 1166, 1165, 1164, 1163, 1162, 1161, 1160, 1159, 1158, 1157, 1156, 1155, 1154, 1153, 1152, 1151, 1150, 1149, 1148, 1147, 1146>>,
  <<1145, 1144, 1143, 1142, 1141, 1140, 1139, 1138, 1137, 1136, 1135, 1134, 1133, 1132, 1131, 1130, 1129, 1128, 1127, 1126, 1125, 1124, 1123, 1122, 1121>>,
  <<1121, 1120, 1119, 1118, 1117, 1116, 1115, 1114, 1113, 1112, 1111, 1110, 1109, 1108, 1107, 1106, 1105, 1104, 1103, 1102, 1101, 1100, 1099, 1098, 1097>>,
  <<1096, 1095, 1094, 1093, 1092, 1091, 1090, 1089, 1088, 1087, 1086, 1085, 1084, 1083, 1082, 1081, 1080, 1079, 1078, 1077, 1076, 1075, 1074, 1073, 1072>>,
  <<1071, 1070, 1069, 1068, 1067, 1066, 1065, 1064, 1063, 1062, 1061, 1060, 1059, 1058, 1057, 1056, 1055, 1054, 1053, 1052, 1051, 1050, 1049, 1048, 1047>>,
  <<1046, 1045, 1044, 1043, 1042, 1041, 1040, 1039, 1038, 1037, 1036, 1035, 1034, 1033, 1032, 1031, 1030, 1029, 1028, 1027, 1026, 1025, 1024, 1023, 1022>>,
  <<1021, 1020, 1019, 1018, 1017, 1016, 1015, 1014, 1013, 1012, 1011, 1010, 1009, 1008, 1007, 1006, 1005, 1004, 1003, 1002, 1001, 1000, 999, 998, 997>>,
  <<996, 995, 994, 993, 992, 991, 990, 989, 988, 987, 986, 985, 984, 983, 982, 981, 980, 979, 978, 977, 976, 975, 974, 973, 972>>,
  <<971, 970, 969, 968, 967, 966, 965, 964, 963, 962, 961, 960, 959, 958, 957, 956, 955, 954, 953, 952, 951, 950, 949, 948, 947>>,
  <<946, 945, 944, 943, 942, 941, 940, 939, 938, 937, 936, 935, 934, 933, 932, 931, 930, 929, 928, 927, 926, 925, 924, 923, 922>>,
  <<921, 920, 919, 918, 917, 916, 915, 914, 913, 912, 911, 910, 909, 908, 907, 906, 905, 904, 903, 902, 901, 900, 899, 898, 897>>,
  <<896, 895, 894, 893, 892, 891, 890, 889, 888, 887, 886, 885, 884, 883, 882, 881, 880, 879, 878, 877, 876, 875, 874, 873, 872>>,
  <<871, 870, 869, 868, 867, 866, 865, 864, 863, 862, 861, 860, 859, 858, 857, 856, 855, 854, 853, 852, 851, 850, 849, 848, 847>>,
  <<846, 845, 844, 843, 842, 841, 840, 839, 839, 838, 837, 836, 835, 834, 833, 832, 831, 830, 829, 828, 827, 826, 825, 824, 823>>,
  <<822, 821, 820, 819, 818, 817, 816, 815, 814, 813, 812, 811, 810, 809, 808, 807, 806, 805, 804, 803, 802, 801, 800, 799, 798>>,
  <<797, 796, 795, 794, 793, 792, 791, 790, 789, 788, 787, 786, 785, 785, 784, 783, 782, 781, 780, 779, 778, 777, 776, 775, 774>>,
  <<773, 772, 771, 770, 769, 768, 767, 766, 765, 764, 763, 762, 761, 760, 759, 758, 757, 756, 755, 754, 753, 752, 751, 750, 749>>,
  <<749, 748, 747, 746, 745, 744, 743, 742, 741, 740, 739, 738, 737, 736, 735, 734, 733, 732, 731, 730, 729, 728, 727, 726, 725>>,
  <<724, 723, 722, 722, 721, 720, 719, 718, 717, 716, 715, 714, 713, 712, 711, 710, 709, 708, 707, 706, 705, 704, 703, 702, 701>>,
  <<700, 700, 699, 698, 697, 696, 695, 694, 693, 692, 691, 690, 689, 688, 687, 686, 685, 684, 683, 682, 681, 680, 680, 679, 678>>,
  <<677, 676, 675, 674, 673, 672, 671, 670, 669, 668, 667, 666, 665, 664, 663, 663, 662, 661, 660, 659, 658, 657, 656, 655, 654>>,
  <<653, 652, 651, 650, 649, 648, 648, 647, 646, 645, 644, 643, 642, 641, 640, 639, 638, 637, 636, 635, 634, 634, 633, 632, 631>>,
  <<630, 629, 628, 627, 626, 625, 624, 623, 622, 621, 621, 620, 619, 618, 617, 616, 615, 614, 613, 612, 611, 610, 609, 609, 608>>,
  <<607, 606, 605, 604, 603, 602, 601, 600, 599, 598, 598, 597, 596, 595, 594, 593, 592, 591, 590, 589, 588, 587, 587, 586, 585>>,
  <<584, 583, 582, 581, 580, 579, 578, 577, 577, 576, 575, 574, 573, 572, 571, 570, 569, 568, 568, 567, 566, 565, 564, 563, 562>>,
  <<561, 560, 559, 559, 558, 557, 556, 555, 554, 553, 552, 551, 551, 550, 549, 548, 547, 546, 545, 544, 543, 542, 542, 541, 540>>,
  <<539, 538, 537, 536, 535, 534, 534, 533, 532, 531, 530, 529, 528, 527, 527, 526, 525, 524, 523, 522, 521, 520, 520, 519, 518>>,
  <<517, 516, 515, 514, 513, 513, 512, 511, 510, 509, 508, 507, 506, 506, 505, 504, 503, 502, 501, 500, 499, 499, 498, 497, 496>>,
  <<495, 494, 493, 493, 492, 491, 490, 489, 488, 487, 487, 486, 485, 484, 483, 482, 481, 481, 480, 479, 478, 477, 476, 475, 475>>,
  <<474, 473, 472, 471, 470, 469, 469, 468, 467, 466, 465, 464, 464, 463, 462, 461, 460, 459, 459, 458, 457, 456, 455, 454, 453>>,
  <<453, 452, 451, 450, 449, 448, 448, 447, 446, 445, 444, 443, 443, 442, 441, 440, 439, 438, 438, 437, 436, 435, 434, 434, 433>>,
  <<432, 431, 430, 429, 429, 428, 427, 426, 425, 425, 424, 423, 422, 421, 420, 420, 419, 418, 417, 416, 416, 415, 414, 413, 412>>,
  <<411, 411, 410, 409, 408, 407, 407, 406, 405, 404, 403, 403, 402, 401, 400, 399, 399, 398, 397, 396, 395, 395, 394, 393, 392>>,
  <<391, 391, 390, 389, 388, 388, 387, 386, 385, 384, 384, 383, 382, 381, 380, 380, 379, 378, 377, 377, 376, 375, 374, 373, 373>>,
  <<372, 371, 370, 369, 369, 368, 367, 366, 366, 365, 364, 363, 363, 362, 361, 360, 359, 359, 358, 357, 356, 356, 355, 354, 353>>,
  <<353, 352, 351, 350, 350, 349, 348, 347, 346, 346, 345, 344, 343, 343, 342, 341, 340, 340, 339, 338, 337, 337, 336, 335, 334>>,
  <<334, 333, 332, 331, 331, 330, 329, 329, 328, 327, 326, 326, 325, 324, 323, 323, 322, 321, 320, 320, 319, 318, 317, 317, 316>>,
  <<315, 315, 314, 313, 312, 312, 311, 310, 309, 309, 308, 307, 307, 306, 305, 304, 304, 303, 302, 302, 301, 300, 299, 299, 298>>,
  <<297, 297, 296, 295, 294, 294, 293, 292, 292, 291, 290, 290, 289, 288, 287, 287, 286, 285, 285, 284, 283, 283, 282, 281, 280>>,
  <<280, 279, 278, 278, 277, 276, 276, 275, 274, 274, 273, 272, 271, 271, 270, 269, 269, 268, 267, 267, 266, 265, 265, 264, 263>>,
  <<263, 262, 261, 261, 260, 259, 259, 258, 257, 257, 256, 255, 255, 254, 253, 253, 252, 251, 251, 250, 249, 249, 248, 247, 247>>,
  <<246, 245, 245, 244, 243, 243, 242, 241, 241, 240, 239, 239, 238, 237, 237, 236, 236, 235, 234, 234, 233, 232, 232, 231, 230>>,
  <<230, 229, 228, 228, 227, 227, 226, 225, 225, 224, 223, 223, 222, 222, 221, 220, 220, 219, 218, 218, 217, 217, 216, 215, 215>>,
  <<214, 213, 213, 212, 212, 211, 210, 210, 209, 209, 208, 207, 207, 206, 205, 205, 204, 204, 203, 202, 202, 201, 201, 200, 199>>,
  <<199, 198, 198, 197, 196, 196, 195, 195, 194, 194, 193, 192, 192, 191, 191, 190, 189, 189, 188, 188, 187, 186, 186, 185, 185>>,
  <<184, 184, 183, 182, 182, 181, 181, 180, 180, 179, 178, 178, 177, 177, 176, 176, 175, 174, 174, 173, 173, 172, 172, 171, 171>>,
  <<170, 169, 169, 168, 168, 167, 167, 166, 166, 165, 164, 164, 163, 163, 162, 162, 161, 161, 160, 160, 159, 158, 158, 157, 157>>,
  <<156, 156, 155, 155, 154, 154, 153, 153, 152, 151, 151, 150, 150, 149, 149, 148, 148, 147, 147, 146, 146, 145, 145, 144, 144>>,
  <<143, 143, 142, 142, 141, 141, 140, 140, 139, 139, 138, 137, 137, 136, 136, 135, 135, 134, 134, 133, 133, 132, 132, 131, 131>>,
  <<130, 130, 130, 129, 129, 128, 128, 127, 127, 126, 126, 125, 125, 124, 124, 123, 123, 122, 122, 121, 121, 120, 120, 119, 119>>,
  <<118, 118, 117, 117, 117, 116, 116, 115, 115, 114, 114, 113, 113, 112, 112, 111, 111, 111, 110, 110, 109, 109, 108, 108, 107>>,
  <<107, 106, 106, 106, 105, 105, 104, 104, 103, 103, 102, 102, 102, 101, 101, 100, 100, 99, 99, 99, 98, 98, 97, 97, 96>>,
  <<96, 96, 95, 95, 94, 94, 93, 93, 93, 92, 92, 91, 91, 90, 90, 90, 89, 89, 88, 88, 88, 87, 87, 86, 86>>,
  <<86, 85, 85, 84, 84, 84, 83, 83, 82, 82, 82, 81, 81, 80, 80, 80, 79, 79, 78, 78, 78, 77, 77, 76, 76>>,
  <<76, 75, 75, 75, 74, 74, 73, 73, 73, 72, 72, 72, 71, 71, 70, 70, 70, 69, 69, 69, 68, 68, 68, 67, 67>>,
  <<66, 66, 66, 65, 65, 65, 64, 64, 64, 63, 63, 63, 62, 62, 62, 61, 61, 60, 60, 60, 59, 59, 59, 58, 58>>,
  <<58, 57, 57, 57, 56, 56, 56, 55, 55, 55, 54, 54, 54, 54, 53, 53, 53, 52, 52, 52, 51, 51, 51, 50, 50>>,
  <<50, 49, 49, 49, 48, 48, 48, 48, 47, 47, 47, 46, 46, 46, 45, 45, 45, 45, 44, 44, 44, 43, 43, 43, 43>>,
  <<42, 42, 42, 41, 41, 41, 41, 40, 40, 40, 39, 39, 39, 39, 38, 38, 38, 37, 37, 37, 37, 36, 36, 36, 36>>,
  <<35, 35, 35, 35, 34, 34, 34, 34, 33, 33, 33, 32, 32, 32, 32, 31, 31, 31, 31, 30, 30, 30, 30, 30, 29>>,
  <<29, 29, 29, 28, 28, 28, 28, 27, 27, 27, 27, 26, 26, 26, 26, 26, 25, 25, 25, 25, 24, 24, 24, 24, 24>>,
  <<23, 23, 23, 23, 23, 22, 22, 22, 22, 21, 21, 21, 21, 21, 20, 20, 20, 20, 20, 19, 19, 19, 19, 19, 18>>,
  <<18, 18, 18, 18, 18, 17, 17, 17, 17, 17, 16, 16, 16, 16, 16, 16, 15, 15, 15, 15, 15, 15, 14, 14, 14>>,
  <<14, 14, 14, 13, 13, 13, 13, 13, 13, 12, 12, 12, 12, 12, 12, 11, 11, 11, 11, 11, 11, 11, 10, 10, 10>>,
  <<10, 10, 10, 10, 9, 9, 9, 9, 9, 9, 9, 9, 8, 8, 8, 8, 8, 8, 8, 8, 7, 7, 7, 7, 7>>,
  <<7, 7, 7, 6, 6, 6, 6, 6, 6, 6, 6, 6, 5, 5, 5, 5, 5, 5, 5, 5, 5, 5, 4, 4, 4>>,
  <<4, 4, 4, 4, 4, 4, 4, 4, 3, 3, 3, 3, 3, 3, 3, 3, 3, 3, 3, 3, 3, 2, 2, 2, 2>>,
  <<2, 2, 2, 2, 2, 2, 2, 2, 2, 2, 2, 2, 1, 1, 1, 1, 1, 1, 1, 1, 1, 1, 1, 1, 1>>,
  <<1, 1, 1, 1, 1, 1, 1, 1, 1, 1, 0, 0, 0, 0, 0, 0, 0, 0, 0, 0, 0, 0, 0, 0, 0>>,
  <<0, 0, 0, 0, 0, 0, 0, 0, 0, 0, 0, 0, 0, 0, 0, 0, 0, 0, 0, 0, 0, 0, 0, 0, 0>>,
  <<0, 0, 0, 0, 0, 0, 0, 0, 0, 0, 0, 0, 0, 0, 0, 0, 0, 0, 0, 0, 0, 0, 0, 0, 1>>,
  <<1, 1, 1, 1, 1, 1, 1, 1, 1, 1, 1, 1, 1, 1, 1, 1, 1, 1, 1, 1, 1, 1, 2, 2, 2>>,
  <<2, 2, 2, 2, 2, 2, 2, 2, 2, 2, 2, 2, 2, 3, 3, 3, 3, 3, 3, 3, 3, 3, 3, 3, 3>>,
  <<3, 4, 4, 4, 4, 4, 4, 4, 4, 4, 4, 4, 5, 5, 5, 5, 5, 5, 5, 5, 5, 5, 6, 6, 6>>,
  <<6, 6, 6, 6, 6, 6, 7, 7, 7, 7, 7, 7, 7, 7, 7, 8, 8, 8, 8, 8, 8, 8, 8, 9, 9>>,
  <<9, 9, 9, 9, 9, 10, 10, 10, 10, 10, 10, 10, 11, 11, 11, 11, 11, 11, 11, 12, 12, 12, 12, 12, 12>>,
  <<13, 13, 13, 13, 13, 13, 13, 14, 14, 14, 14, 14, 14, 15, 15, 15, 15, 15, 16, 16, 16, 16, 16, 16, 17>>,
  <<17, 17, 17, 17, 18, 18, 18, 18, 18, 18, 19, 19, 19, 19, 19, 20, 20, 20, 20, 20, 21, 21, 21, 21, 21>>,
  <<22, 22, 22, 22, 22, 23, 23, 23, 23, 24, 24, 24, 24, 24, 25, 25, 25, 25, 26, 26, 26, 26, 26, 27, 27>>,
  <<27, 27, 28, 28, 28, 28, 29, 29, 29, 29, 29, 30, 30, 30, 30, 31, 31, 31, 31, 32, 32, 32, 32, 33, 33>>,
  <<33, 33, 34, 34, 34, 34, 35, 35, 35, 36, 36, 36, 36, 37, 37, 37, 37, 38, 38, 38, 39, 39, 39, 39, 40>>,
  <<40, 40, 40, 41, 41, 41, 42, 42, 42, 42, 43, 43, 43, 44, 44, 44, 44, 45, 45, 45, 46, 46, 46, 47, 47>>,
  <<47, 47, 48, 48, 48, 49, 49, 49, 50, 50, 50, 51, 51, 51, 52, 52, 52, 52, 53, 53, 53, 54, 54, 54, 55>>,
  <<55, 55, 56, 56, 56, 57, 57, 57, 58, 58, 58, 59, 59, 59, 60, 60, 60, 61, 61, 61, 62, 62, 62, 63, 63>>,
  <<64, 64, 64, 65, 65, 65, 66, 66, 66, 67, 67, 67, 68, 68, 69, 69, 69, 70, 70, 70, 71, 71, 71, 72, 72>>,
  <<73, 73, 73, 74, 74, 74, 75, 75, 76, 76, 76, 77, 77, 78, 78, 78, 79, 79, 79, 80, 80, 81, 81, 81, 82>>,
  <<82, 83, 83, 83, 84, 84, 85, 85, 85, 86, 86, 87, 87, 87, 88, 88, 89, 89, 90, 90, 90, 91, 91, 92, 92>>,
  <<92, 93, 93, 94, 94, 95, 95, 95, 96, 96, 97, 97, 98, 98, 98, 99, 99, 100, 100, 101, 101, 101, 102, 102, 103>>,
  <<103, 104, 104, 105, 105, 105, 106, 106, 107, 107, 108, 108, 109, 109, 110, 110, 110, 111, 111, 112, 112, 113, 113, 114, 114>>,
  <<115, 115, 116, 116, 116, 117, 117, 118, 118, 119, 119, 120, 120, 121, 121, 122, 122, 123, 123, 124, 124, 125, 125, 126, 126>>,
  <<126, 127, 127, 128, 128, 129, 129, 130, 130, 131, 131, 132, 132, 133, 133, 134, 134, 135, 135, 136, 136, 137, 137, 138, 138>>,
  <<139, 139, 140, 140, 141, 141, 142, 143, 143, 144, 144, 145, 145, 146, 146, 147, 147, 148, 148, 149, 149, 150, 150, 151, 151>>,
  <<152, 152, 153, 153, 154, 155, 155, 156, 156, 157, 157, 158, 158, 159, 159, 160, 160, 161, 162, 162, 163, 163, 164, 164, 165>>,
  <<165, 166, 167, 167, 168, 168, 169, 169, 170, 170, 171, 172, 172, 173, 173, 174, 174, 175, 175, 176, 177, 177, 178, 178, 179>>,
  <<179, 180, 181, 181, 182, 182, 183, 183, 184, 185, 185, 186, 186, 187, 188, 188, 189, 189, 190, 190, 191, 192, 192, 193, 193>>,
  <<194, 195, 195, 196, 196, 197, 198, 198, 199, 199, 200, 201, 201, 202, 202, 203, 204, 204, 205, 205, 206, 207, 207, 208, 208>>,
  <<209, 210, 210, 211, 211, 212, 213, 213, 214, 215, 215, 216, 216, 217, 218, 218, 219, 220, 220, 221, 221, 222, 223, 223, 224>>,
  <<225, 225, 226, 226, 227, 228, 228, 229, 230, 230, 231, 232, 232, 233, 233, 234, 235, 235, 236, 237, 237, 238, 239, 239, 240>>,
  <<241, 241, 242, 243, 243, 244, 245, 245, 246, 246, 247, 248, 248, 249, 250, 250, 251, 252, 252, 253, 254, 254, 255, 256, 256>>,
  <<257, 258, 258, 259, 260, 260, 261, 262, 262, 263, 264, 265, 265, 266, 267, 267, 268, 269, 269, 270, 271, 271, 272, 273, 273>>,
  <<274, 275, 275, 276, 277, 278, 278, 279, 280, 280, 281, 282, 282, 283, 284, 284, 285, 286, 287, 287, 288, 289, 289, 290, 291>>,
  <<291, 292, 293, 294, 294, 295, 296, 296, 297, 298, 299, 299, 300, 301, 301, 302, 303, 304, 304, 305, 306, 306, 307, 308, 309>>,
  <<309, 310, 311, 312, 312, 313, 314, 314, 315, 316, 317, 317, 318, 319, 320, 320, 321, 322, 322, 323, 324, 325, 325, 326, 327>>,
  <<328, 328, 329, 330, 331, 331, 332, 333, 334, 334, 335, 336, 337, 337, 338, 339, 340, 340, 341, 342, 343, 343, 344, 345, 346>>,
  <<346, 347, 348, 349, 349, 350, 351, 352, 352, 353, 354, 355, 355, 356, 357, 358, 359, 359, 360, 361, 362, 362, 363, 364, 365>>,
  <<365, 366, 367, 368, 369, 369, 370, 371, 372, 372, 373, 374, 375, 376, 376, 377, 378, 379, 379, 380, 381, 382, 383, 383, 384>>,
  <<385, 386, 387, 387, 388, 389, 390, 391, 391, 392, 393, 394, 395, 395, 396, 397, 398, 398, 399, 400, 401, 402, 402, 403, 404>>,
  <<405, 406, 407, 407, 408, 409, 410, 411, 411, 412, 413, 414, 415, 415, 416, 417, 418, 419, 419, 420, 421, 422, 423, 424, 424>>,
  <<425, 426, 427, 428, 428, 429, 430, 431, 432, 433, 433, 434, 435, 436, 437, 438, 438, 439, 440, 441, 442, 442, 443, 444, 445>>,
  <<446, 447, 447, 448, 449, 450, 451, 452, 452, 453, 454, 455, 456, 457, 458, 458, 459, 460, 461, 462, 463, 463, 464, 465, 466>>,
  <<467, 468, 468, 469, 470, 471, 472, 473, 474, 474, 475, 476, 477, 478, 479, 480, 480, 481, 482, 483, 484, 485, 486, 486, 487>>,
  <<488, 489, 490, 491, 492, 492, 493, 494, 495, 496, 497, 498, 498, 499, 500, 501, 502, 503, 504, 505, 505, 506, 507, 508, 509>>,
  <<510, 511, 511, 512, 513, 514, 515, 516, 517, 518, 518, 519, 520, 521, 522, 523, 524, 525, 526, 526, 527, 528, 529, 530, 531>>,
  <<532, 533, 533, 534, 535, 536, 537, 538, 539, 540, 541, 541, 542, 543, 544, 545, 546, 547, 548, 549, 549, 550, 551, 552, 553>>,
  <<554, 555, 556, 557, 557, 558, 559, 560, 561, 562, 563, 564, 565, 566, 566, 567, 568, 569, 570, 571, 572, 573, 574, 575, 576>>,
  <<576, 577, 578, 579, 580, 581, 582, 583, 584, 585, 586, 586, 587, 588, 589, 590, 591, 592, 593, 594, 595, 596, 596, 597, 598>>,
  <<599, 600, 601, 602, 603, 604, 605, 606, 607, 607, 608, 609, 610, 611, 612, 613, 614, 615, 616, 617, 618, 619, 619, 620, 621>>,
  <<622, 623, 624, 625, 626, 627, 628, 629, 630, 631, 632, 632, 633, 634, 635, 636, 637, 638, 639, 640, 641, 642, 643, 644, 645>>,
  <<645, 646, 647, 648, 649, 650, 651, 652, 653, 654, 655, 656, 657, 658, 659, 660, 660, 661, 662, 663, 664, 665, 666, 667, 668>>,
  <<669, 670, 671, 672, 673, 674, 675, 676, 677, 677, 678, 679, 680, 681, 682, 683, 684, 685, 686, 687, 688, 689, 690, 691, 692>>,
  <<693, 694, 695, 696, 696, 697, 698, 699, 700, 701, 702, 703, 704, 705, 706, 707, 708, 709, 710, 711, 712, 713, 714, 715, 716>>,
  <<717, 718, 718, 719, 720, 721, 722, 723, 724, 725, 726, 727, 728, 729, 730, 731, 732, 733, 734, 735, 736, 737, 738, 739, 740>>,
  <<741, 742, 743, 744, 744, 745, 746, 747, 748, 749, 750, 751, 752, 753, 754, 755, 756, 757, 758, 759, 760, 761, 762, 763, 764>>,
  <<765, 766, 767, 768, 769, 770, 771, 772, 773, 774, 775, 776, 777, 777, 778, 779, 780, 781, 782, 783, 784, 785, 786, 787, 788>>,
  <<789, 790, 791, 792, 793, 794, 795, 796, 797, 798, 799, 800, 801, 802, 803, 804, 805, 806, 807, 808, 809, 810, 811, 812, 813>>,
  <<814, 815, 816, 817, 818, 819, 820, 821, 822, 823, 824, 825, 826, 826, 827, 828, 829, 830, 831, 832, 833, 834, 835, 836, 837>>,
  <<838, 839, 840, 841, 842, 843, 844, 845, 846, 847, 848, 849, 850, 851, 852, 853, 854, 855, 856, 857, 858, 859, 860, 861, 862>>,
  <<863, 864, 865, 866, 867, 868, 869, 870, 871, 872, 873, 874, 875, 876, 877, 878, 879, 880, 881, 882, 883, 884, 885, 886, 887>>,
  <<888, 889, 890, 891, 892, 893, 894, 895, 896, 897, 898, 899, 900, 901, 902, 903, 904, 905, 906, 907, 908, 909, 910, 911, 912>>,
  <<913, 914, 915, 916, 917, 918, 919, 920, 921, 922, 923, 924, 925, 926, 927, 928, 929, 930, 931, 932, 933, 934, 935, 936, 937>>,
  <<938, 939, 940, 941, 942, 943, 944, 945, 946, 947, 948, 949, 950, 951, 952, 953, 954, 955, 956, 957, 958, 959, 960, 961, 962>>,
  <<963, 964, 965, 966, 967, 968, 969, 970, 971, 972, 973, 974, 975, 976, 977, 978, 979, 980, 981, 982, 983, 984, 985, 986, 987>>,
  <<988, 989, 990, 991, 992, 993, 994, 995, 996, 997, 998, 999, 1000, 1001, 1002, 1003, 1004, 1005, 1006, 1007, 1008, 1009, 1010, 1011, 1012>>,
  <<1013, 1014, 1015, 1016, 1017, 1018, 1019, 1020, 1021, 1022, 1023, 1024, 1025, 1026, 1027, 1028, 1029, 1030, 1031, 1032, 1033, 1034, 1035, 1036, 1037>>,
  <<1038, 1039, 1040, 1041, 1042, 1043, 1044, 1045, 1046, 1047, 1048, 1049, 1050, 1051, 1052, 1053, 1054, 1055, 1056, 1057, 1058, 1059, 1060, 1061, 1062>>,
  <<1063, 1064, 1065, 1066, 1067, 1068, 1069, 1070, 1071, 1072, 1073, 1074, 1075, 1076, 1077, 1078, 1079, 1080, 1081, 1082, 1083, 1084, 1085, 1086, 1087>>,
  <<1087, 1088, 1089, 1090, 1091, 1092, 1093, 1094, 1095, 1096, 1097, 1098, 1099, 1100, 1101, 1102, 1103, 1104, 1105, 1106, 1107, 1108, 1109, 1110, 1111>>,
  <<1112, 1113, 1114, 1115, 1116, 1117, 1118, 1119, 1120, 1121, 1122, 1123, 1124, 1125, 1126, 1127, 1128, 1129, 1130, 1131, 1132, 1133, 1134, 1135, 1136>>,
  <<1137, 1138, 1139, 1140, 1141, 1142, 1143, 1144, 1145, 1146, 1147, 1148, 1149, 1150, 1151, 1152, 1153, 1154, 1155, 1156, 1157, 1158, 1159, 1160, 1161>>,
  <<1162, 1163, 1164, 1165, 1166, 1167, 1168, 1169, 1170, 1171, 1172, 1173, 1174, 1175, 1176, 1177, 1178, 1179, 1180, 1181, 1182, 1183, 1184, 1185, 1186>>,
  <<1187, 1187, 1188, 1189, 1190, 1191, 1192, 1193, 1194, 1195, 1196, 1197, 1198, 1199, 1200, 1201, 1202, 1203, 1204, 1205, 1206, 1207, 1208, 1209, 1210>>,
  <<1211, 1212, 1213, 1214, 1215, 1216, 1217, 1218, 1219, 1220, 1221, 1222, 1223, 1224, 1225, 1226, 1227, 1228, 1229, 1230, 1231, 1231, 1232, 1233, 1234>>,
  <<1235, 1236, 1237, 1238, 1239, 1240, 1241, 1242, 1243, 1244, 1245, 1246, 1247, 1248, 1249, 1250, 1251, 1252, 1253, 1254, 1255, 1256, 1257, 1258, 1259>>,
  <<1260, 1261, 1262, 1262, 1263, 1264, 1265, 1266, 1267, 1268, 1269, 1270, 1271, 1272, 1273, 1274, 1275, 1276, 1277, 1278, 1279, 1280, 1281, 1282, 1283>>,
  <<1284, 1285, 1286, 1287, 1287, 1288, 1289, 1290, 1291, 1292, 1293, 1294, 1295, 1296, 1297, 1298, 1299, 1300, 1301, 1302, 1303, 1304, 1305, 1306, 1307>>,
  <<1308, 1308, 1309, 1310, 1311, 1312, 1313, 1314, 1315, 1316, 1317, 1318, 1319, 1320, 1321, 1322, 1323, 1324, 1325, 1326, 1327, 1327, 1328, 1329, 1330>>,
  <<1331, 1332, 1333, 1334, 1335, 1336, 1337, 1338, 1339, 1340, 1341, 1342, 1343, 1343, 1344, 1345, 1346, 1347, 1348, 1349, 1350, 1351, 1352, 1353, 1354>>,
  <<1355, 1356, 1357, 1358, 1358, 1359, 1360, 1361, 1362, 1363, 1364, 1365, 1366, 1367, 1368, 1369, 1370, 1371, 1371, 1372, 1373, 1374, 1375, 1376, 1377>>,
  <<1378, 1379, 1380, 1381, 1382, 1383, 1384, 1384, 1385, 1386, 1387, 1388, 1389, 1390, 1391, 1392, 1393, 1394, 1395, 1395, 1396, 1397, 1398, 1399, 1400>>,
  <<1401, 1402, 1403, 1404, 1405, 1406, 1406, 1407, 1408, 1409, 1410, 1411, 1412, 1413, 1414, 1415, 1416, 1417, 1417, 1418, 1419, 1420, 1421, 1422, 1423>>,
  <<1424, 1425, 1426, 1426, 1427, 1428, 1429, 1430, 1431, 1432, 1433, 1434, 1435, 1436, 1436, 1437, 1438, 1439, 1440, 1441, 1442, 1443, 1444, 1444, 1445>>,
  <<1446, 1447, 1448, 1449, 1450, 1451, 1452, 1453, 1453, 1454, 1455, 1456, 1457, 1458, 1459, 1460, 1461, 1461, 1462, 1463, 1464, 1465, 1466, 1467, 1468>>,
  <<1469, 1469, 1470, 1471, 1472, 1473, 1474, 1475, 1476, 1476, 1477, 1478, 1479, 1480, 1481, 1482, 1483, 1483, 1484, 1485, 1486, 1487, 1488, 1489, 1490>>,
  <<1490, 1491, 1492, 1493, 1494, 1495, 1496, 1497, 1497, 1498, 1499, 1500, 1501, 1502, 1503, 1503, 1504, 1505, 1506, 1507, 1508, 1509, 1510, 1510, 1511>>,
  <<1512, 1513, 1514, 1515, 1516, 1516, 1517, 1518, 1519, 1520, 1521, 1522, 1522, 1523, 1524, 1525, 1526, 1527, 1527, 1528, 1529, 1530, 1531, 1532, 1533>>,
  <<1533, 1534, 1535, 1536, 1537, 1538, 1538, 1539, 1540, 1541, 1542, 1543, 1544, 1544, 1545, 1546, 1547, 1548, 1549, 1549, 1550, 1551, 1552, 1553, 1554>>,
  <<1554, 1555, 1556, 1557, 1558, 1559, 1559, 1560, 1561, 1562, 1563, 1563, 1564, 1565, 1566, 1567, 1568, 1568, 1569, 1570, 1571, 1572, 1573, 1573, 1574>>,
  <<1575, 1576, 1577, 1577, 1578, 1579, 1580, 1581, 1582, 1582, 1583, 1584, 1585, 1586, 1586, 1587, 1588, 1589, 1590, 1590, 1591, 1592, 1593, 1594, 1594>>,
  <<1595, 1596, 1597, 1598, 1598, 1599, 1600, 1601, 1602, 1602, 1603, 1604, 1605, 1606, 1606, 1607, 1608, 1609, 1610, 1610, 1611, 1612, 1613, 1614, 1614>>,
  <<1615, 1616, 1617, 1618, 1618, 1619, 1620, 1621, 1621, 1622, 1623, 1624, 1625, 1625, 1626, 1627, 1628, 1628, 1629, 1630, 1631, 1632, 1632, 1633, 1634>>,
  <<1635, 1635, 1636, 1637, 1638, 1639, 1639, 1640, 1641, 1642, 1642, 1643, 1644, 1645, 1645, 1646, 1647, 1648, 1648, 1649, 1650, 1651, 1652, 1652, 1653>>,
  <<1654, 1655, 1655, 1656, 1657, 1658, 1658, 1659, 1660, 1661, 1661, 1662, 1663, 1664, 1664, 1665, 1666, 1667, 1667, 1668, 1669, 1670, 1670, 1671, 1672>>,
  <<1673, 1673, 1674, 1675, 1675, 1676, 1677, 1678, 1678, 1679, 1680, 1681, 1681, 1682, 1683, 1684, 1684, 1685, 1686, 1686, 1687, 1688, 1689, 1689, 1690>>,
  <<1691, 1692, 1692, 1693, 1694, 1694, 1695, 1696, 1697, 1697, 1698, 1699, 1699, 1700, 1701, 1702, 1702, 1703, 1704, 1704, 1705, 1706, 1707, 1707, 1708>>,
  <<1709, 1709, 1710, 1711, 1711, 1712, 1713, 1714, 1714, 1715, 1716, 1716, 1717, 1718, 1718, 1719, 1720, 1721, 1721, 1722, 1723, 1723, 1724, 1725, 1725>>,
  <<1726, 1727, 1727, 1728, 1729, 1730, 1730, 1731, 1732, 1732, 1733, 1734, 1734, 1735, 1736, 1736, 1737, 1738, 1738, 1739, 1740, 1740, 1741, 1742, 1742>>,
  <<1743, 1744, 1744, 1745, 1746, 1746, 1747, 1748, 1748, 1749, 1750, 1750, 1751, 1752, 1752, 1753, 1754, 1754, 1755, 1756, 1756, 1757, 1758, 1758, 1759>>,
  <<1760, 1760, 1761, 1761, 1762, 1763, 1763, 1764, 1765, 1765, 1766, 1767, 1767, 1768, 1769, 1769, 1770, 1770, 1771, 1772, 1772, 1773, 1774, 1774, 1775>>,
  <<1776, 1776, 1777, 1777, 1778, 1779, 1779, 1780, 1781, 1781, 1782, 1782, 1783, 1784, 1784, 1785, 1786, 1786, 1787, 1787, 1788, 1789, 1789, 1790, 1790>>,
  <<1791, 1792, 1792, 1793, 1794, 1794, 1795, 1795, 1796, 1797, 1797, 1798, 1798, 1799, 1800, 1800, 1801, 1801, 1802, 1803, 1803, 1804, 1804, 1805, 1806>>,
  <<1806, 1807, 1807, 1808, 1809, 1809, 1810, 1810, 1811, 1811, 1812, 1813, 1813, 1814, 1814, 1815, 1816, 1816, 1817, 1817, 1818, 1818, 1819, 1820, 1820>>,
  <<1821, 1821, 1822, 1822, 1823, 1824, 1824, 1825, 1825, 1826, 1826, 1827, 1827, 1828, 1829, 1829, 1830, 1830, 1831, 1831, 1832, 1833, 1833, 1834, 1834>>,
  <<1835, 1835, 1836, 1836, 1837, 1837, 1838, 1839, 1839, 1840, 1840, 1841, 1841, 1842, 1842, 1843, 1843, 1844, 1844, 1845, 1846, 1846, 1847, 1847, 1848>>,
  <<1848, 1849, 1849, 1850, 1850, 1851, 1851, 1852, 1852, 1853, 1853, 1854, 1855, 1855, 1856, 1856, 1857, 1857, 1858, 1858, 1859, 1859, 1860, 1860, 1861>>,
  <<1861, 1862, 1862, 1863, 1863, 1864, 1864, 1865, 1865, 1866, 1866, 1867, 1867, 1868, 1868, 1869, 1869, 1870, 1870, 1871, 1871, 1872, 1872, 1873, 1873>>,
  <<1874, 1874, 1875, 1875, 1876, 1876, 1877, 1877, 1877, 1878, 1878, 1879, 1879, 1880, 1880, 1881, 1881, 1882, 1882, 1883, 1883, 1884, 1884, 1885, 1885>>,
  <<1886, 1886, 1886, 1887, 1887, 1888, 1888, 1889, 1889, 1890, 1890, 1891, 1891, 1891, 1892, 1892, 1893, 1893, 1894, 1894, 1895, 1895, 1896, 1896, 1896>>,
  <<1897, 1897, 1898, 1898, 1899, 1899, 1899, 1900, 1900, 1901, 1901, 1902, 1902, 1903, 1903, 1903, 1904, 1904, 1905, 1905, 1906, 1906, 1906, 1907, 1907>>,
  <<1908, 1908, 1908, 1909, 1909, 1910, 1910, 1911, 1911, 1911, 1912, 1912, 1913, 1913, 1913, 1914, 1914, 1915, 1915, 1915, 1916, 1916, 1917, 1917, 1917>>,
  <<1918, 1918, 1919, 1919, 1919, 1920, 1920, 1921, 1921, 1921, 1922, 1922, 1923, 1923, 1923, 1924, 1924, 1924, 1925, 1925, 1926, 1926, 1926, 1927, 1927>>,
  <<1927, 1928, 1928, 1929, 1929, 1929, 1930, 1930, 1930, 1931, 1931, 1932, 1932, 1932, 1933, 1933, 1933, 1934, 1934, 1934, 1935, 1935, 1935, 1936, 1936>>,
  <<1937, 1937, 1937, 1938, 1938, 1938, 1939, 1939, 1939, 1940, 1940, 1940, 1941, 1941, 1941, 1942, 1942, 1942, 1943, 1943, 1943, 1944, 1944, 1944, 1945>>,
  <<1945, 1945, 1946, 1946, 1946, 1947, 1947, 1947, 1948, 1948, 1948, 1949, 1949, 1949, 1949, 1950, 1950, 1950, 1951, 1951, 1951, 1952, 1952, 1952, 1953>>,
  <<1953, 1953, 1953, 1954, 1954, 1954, 1955, 1955, 1955, 1956, 1956, 1956, 1956, 1957, 1957, 1957, 1958, 1958, 1958, 1958, 1959, 1959, 1959, 1960, 1960>>,
  <<1960, 1960, 1961, 1961, 1961, 1962, 1962, 1962, 1962, 1963, 1963, 1963, 1963, 1964, 1964, 1964, 1965, 1965, 1965, 1965, 1966, 1966, 1966, 1966, 1967>>,
  <<1967, 1967, 1967, 1968, 1968, 1968, 1968, 1969, 1969, 1969, 1969, 1970, 1970, 1970, 1970, 1971, 1971, 1971, 1971, 1972, 1972, 1972, 1972, 1972, 1973>>,
  <<1973, 1973, 1973, 1974, 1974, 1974, 1974, 1975, 1975, 1975, 1975, 1975, 1976, 1976, 1976, 1976, 1977, 1977, 1977, 1977, 1977, 1978, 1978, 1978, 1978>>,
  <<1978, 1979, 1979, 1979, 1979, 1979, 1980, 1980, 1980, 1980, 1980, 1981, 1981, 1981, 1981, 1981, 1982, 1982, 1982, 1982, 1982, 1983, 1983, 1983, 1983>>,
  <<1983, 1983, 1984, 1984, 1984, 1984, 1984, 1985, 1985, 1985, 1985, 1985, 1985, 1986, 1986, 1986, 1986, 1986, 1986, 1987, 1987, 1987, 1987, 1987, 1987>>,
  <<1988, 1988, 1988, 1988, 1988, 1988, 1988, 1989, 1989, 1989, 1989, 1989, 1989, 1989, 1990, 1990, 1990, 1990, 1990, 1990, 1990, 1991, 1991, 1991, 1991>>,
  <<1991, 1991, 1991, 1992, 1992, 1992, 1992, 1992, 1992, 1992, 1992, 1993, 1993, 1993, 1993, 1993, 1993, 1993, 1993, 1993, 1994, 1994, 1994, 1994, 1994>>,
  <<1994, 1994, 1994, 1994, 1995, 1995, 1995, 1995, 1995, 1995, 1995, 1995, 1995, 1995, 1996, 1996, 1996, 1996, 1996, 1996, 1996, 1996, 1996, 1996, 1996>>,
  <<1997, 1997, 1997, 1997, 1997, 1997, 1997, 1997, 1997, 1997, 1997, 1997, 1997, 1998, 1998, 1998, 1998, 1998, 1998, 1998, 1998, 1998, 1998, 1998, 1998>>,
  <<1998, 1998, 1998, 1998, 1999, 1999, 1999, 1999, 1999, 1999, 1999, 1999, 1999, 1999, 1999, 1999, 1999, 1999, 1999, 1999, 1999, 1999, 1999, 1999, 1999>>,
  <<1999, 1999, 2000, 2000, 2000, 2000, 2000, 2000, 2000, 2000, 2000, 2000, 2000, 2000, 2000, 2000, 2000, 2000, 2000, 2000, 2000, 2000, 2000, 2000, 2000>>,
  <<2000, 2000, 2000, 2000, 2000, 2000, 2000, 2000, 2000, 2000, 2000, 2000, 2000, 2000, 2000, 2000, 2000, 2000, 2000, 2000, 2000, 2000, 2000, 2000, 2000>>,
  <<2000, 2000, 2000, 2000, 2000, 2000, 2000, 2000, 2000, 2000, 2000, 2000, 2000, 2000, 2000, 1999, 1999, 1999, 1999, 1999, 1999, 1999, 1999, 1999, 1999>>,
  <<1999, 1999, 1999, 1999, 1999, 1999, 1999, 1999, 1999, 1999, 1999, 1999, 1999, 1998, 1998, 1998, 1998, 1998, 1998, 1998, 1998, 1998, 1998, 1998, 1998>>,
  <<1998, 1998, 1998, 1998, 1997, 1997, 1997, 1997, 1997, 1997, 1997, 1997, 1997, 1997, 1997, 1997, 1997, 1996, 1996, 1996, 1996, 1996, 1996, 1996, 1996>>,
  <<1996, 1996, 1996, 1996, 1995, 1995, 1995, 1995, 1995, 1995, 1995, 1995, 1995, 1995, 1994, 1994, 1994, 1994, 1994, 1994, 1994, 1994, 1994, 1993, 1993>>,
  <<1993, 1993, 1993, 1993, 1993, 1993, 1992, 1992, 1992, 1992, 1992, 1992, 1992, 1992, 1991, 1991, 1991, 1991, 1991, 1991, 1991, 1991, 1990, 1990, 1990>>,
  <<1990, 1990, 1990, 1990, 1989, 1989, 1989, 1989, 1989, 1989, 1988, 1988, 1988, 1988, 1988, 1988, 1988, 1987, 1987, 1987, 1987, 1987, 1987, 1986, 1986>>,
  <<1986, 1986, 1986, 1986, 1985, 1985, 1985, 1985, 1985, 1985, 1984, 1984, 1984, 1984, 1984, 1984, 1983, 1983, 1983, 1983, 1983, 1982, 1982, 1982, 1982>>,
  <<1982, 1981, 1981, 1981, 1981, 1981, 1980, 1980, 1980, 1980, 1980, 1980, 1979, 1979, 1979, 1979, 1978, 1978, 1978, 1978, 1978, 1977, 1977, 1977, 1977>>,
  <<1977, 1976, 1976, 1976, 1976, 1975, 1975, 1975, 1975, 1975, 1974, 1974, 1974, 1974, 1973, 1973, 1973, 1973, 1973, 1972, 1972, 1972, 1972, 1971, 1971>>,
  <<1971, 1971, 1970, 1970, 1970, 1970, 1969, 1969, 1969, 1969, 1968, 1968, 1968, 1968, 1967, 1967, 1967, 1967, 1966, 1966, 1966, 1966, 1965, 1965, 1965>>,
  <<1965, 1964, 1964, 1964, 1964, 1963, 1963, 1963, 1962, 1962, 1962, 1962, 1961, 1961, 1961, 1961, 1960, 1960, 1960, 1959, 1959, 1959, 1959, 1958, 1958>>,
  <<1958, 1957, 1957, 1957, 1957, 1956, 1956, 1956, 1955, 1955, 1955, 1955, 1954, 1954, 1954, 1953, 1953, 1953, 1952, 1952, 1952, 1951, 1951, 1951, 1951>>,
  <<1950, 1950, 1950, 1949, 1949, 1949, 1948, 1948, 1948, 1947, 1947, 1947, 1946, 1946, 1946, 1945, 1945, 1945, 1944, 1944, 1944, 1943, 1943, 1943, 1942>>,
  <<1942, 1942, 1941, 1941, 1941, 1940, 1940, 1940, 1939, 1939, 1939, 1938, 1938, 1938, 1937, 1937, 1937, 1936, 1936, 1936, 1935, 1935, 1935, 1934, 1934>>,
  <<1933, 1933, 1933, 1932, 1932, 1932, 1931, 1931, 1931, 1930, 1930, 1929, 1929, 1929, 1928, 1928, 1928, 1927, 1927, 1926, 1926, 1926, 1925, 1925, 1925>>,
  <<1924, 1924, 1923, 1923, 1923, 1922, 1922, 1922, 1921, 1921, 1920, 1920, 1920, 1919, 1919, 1918, 1918, 1918, 1917, 1917, 1916, 1916, 1916, 1915, 1915>>,
  <<1914, 1914, 1914, 1913, 1913, 1912, 1912, 1912, 1911, 1911, 1910, 1910, 1909, 1909, 1909, 1908, 1908, 1907, 1907, 1907, 1906, 1906, 1905, 1905, 1904>>,
  <<1904, 1904, 1903, 1903, 1902, 1902, 1901, 1901, 1901, 1900, 1900, 1899, 1899, 1898, 1898, 1897, 1897, 1897, 1896, 1896, 1895, 1895, 1894, 1894, 1893>>,
  <<1893, 1893, 1892, 1892, 1891, 1891, 1890, 1890, 1889, 1889, 1888, 1888, 1888, 1887, 1887, 1886, 1886, 1885, 1885, 1884, 1884, 1883, 1883, 1882, 1882>>,
  <<1881, 1881, 1881, 1880, 1880, 1879, 1879, 1878, 1878, 1877, 1877, 1876, 1876, 1875, 1875, 1874, 1874, 1873, 1873, 1872, 1872, 1871, 1871, 1870, 1870>>,
  <<1869, 1869, 1868, 1868, 1867, 1867, 1866, 1866, 1865, 1865, 1864, 1864, 1863, 1863, 1862, 1862, 1861, 1861, 1860, 1860, 1859, 1859, 1858, 1858, 1857>>,
  <<1857, 1856, 1856, 1855, 1855, 1854, 1854, 1853, 1853, 1852, 1852, 1851, 1851, 1850, 1849, 1849, 1848, 1848, 1847, 1847, 1846, 1846, 1845, 1845, 1844>>,
  <<1844, 1843, 1843, 1842, 1841, 1841, 1840, 1840, 1839, 1839, 1838, 1838, 1837, 1837, 1836, 1835, 1835, 1834, 1834, 1833, 1833, 1832, 1832, 1831, 1830>>,
  <<1830, 1829, 1829, 1828, 1828, 1827, 1827, 1826, 1825, 1825, 1824, 1824, 1823, 1823, 1822, 1821, 1821, 1820, 1820, 1819, 1819, 1818, 1817, 1817, 1816>>,
  <<1816, 1815, 1815, 1814, 1813, 1813, 1812, 1812, 1811, 1810, 1810, 1809, 1809, 1808, 1808, 1807, 1806, 1806, 1805, 1805, 1804, 1803, 1803, 1802, 1802>>,
  <<1801, 1800, 1800, 1799, 1799, 1798, 1797, 1797, 1796, 1796, 1795, 1794, 1794, 1793, 1793, 1792, 1791, 1791, 1790, 1789, 1789, 1788, 1788, 1787, 1786>>,
  <<1786, 1785, 1785, 1784, 1783, 1783, 1782, 1781, 1781, 1780, 1780, 1779, 1778, 1778, 1777, 1776, 1776, 1775, 1775, 1774, 1773, 1773, 1772, 1771, 1771>>,
  <<1770, 1769, 1769, 1768, 1768, 1767, 1766, 1766, 1765, 1764, 1764, 1763, 1762, 1762, 1761, 1760, 1760, 1759, 1758, 1758, 1757, 1757, 1756, 1755, 1755>>,
  <<1754, 1753, 1753, 1752, 1751, 1751, 1750, 1749, 1749, 1748, 1747, 1747, 1746, 1745, 1745, 1744, 1743, 1743, 1742, 1741, 1741, 1740, 1739, 1739, 1738>>,
  <<1737, 1737, 1736, 1735, 1735, 1734, 1733, 1732, 1732, 1731, 1730, 1730, 1729, 1728, 1728, 1727, 1726, 1726, 1725, 1724, 1724, 1723, 1722, 1722, 1721>>,
  <<1720, 1719, 1719, 1718, 1717, 1717, 1716, 1715, 1715, 1714, 1713, 1712, 1712, 1711, 1710, 1710, 1709, 1708, 1708, 1707, 1706, 1705, 1705, 1704, 1703>>,
  <<1703, 1702, 1701, 1700, 1700, 1699, 1698, 1698, 1697, 1696, 1695, 1695, 1694, 1693, 1693, 1692, 1691, 1690, 1690, 1689, 1688, 1687, 1687, 1686, 1685>>,
  <<1685, 1684, 1683, 1682, 1682, 1681, 1680, 1679, 1679, 1678, 1677, 1676, 1676, 1675, 1674, 1674, 1673, 1672, 1671, 1671, 1670, 1669, 1668, 1668, 1667>>,
  <<1666, 1665, 1665, 1664, 1663, 1662, 1662, 1661, 1660, 1659, 1659, 1658, 1657, 1656, 1656, 1655, 1654, 1653, 1653, 1652, 1651, 1650, 1650, 1649, 1648>>,
  <<1647, 1646, 1646, 1645, 1644, 1643, 1643, 1642, 1641, 1640, 1640, 1639, 1638, 1637, 1637, 1636, 1635, 1634, 1633, 1633, 1632, 1631, 1630, 1630, 1629>>,
  <<1628, 1627, 1626, 1626, 1625, 1624, 1623, 1623, 1622, 1621, 1620, 1619, 1619, 1618, 1617, 1616, 1615, 1615, 1614, 1613, 1612, 1612, 1611, 1610, 1609>>,
  <<1608, 1608, 1607, 1606, 1605, 1604, 1604, 1603, 1602, 1601, 1600, 1600, 1599, 1598, 1597, 1596, 1596, 1595, 1594, 1593, 1592, 1592, 1591, 1590, 1589>>,
  <<1588, 1588, 1587, 1586, 1585, 1584, 1583, 1583, 1582, 1581, 1580, 1579, 1579, 1578, 1577, 1576, 1575, 1574, 1574, 1573, 1572, 1571, 1570, 1570, 1569>>,
  <<1568, 1567, 1566, 1565, 1565, 1564, 1563, 1562, 1561, 1560, 1560, 1559, 1558, 1557, 1556, 1556, 1555, 1554, 1553, 1552, 1551, 1551, 1550, 1549, 1548>>,
  <<1547, 1546, 1545, 1545, 1544, 1543, 1542, 1541, 1540, 1540, 1539, 1538, 1537, 1536, 1535, 1535, 1534, 1533, 1532, 1531, 1530, 1529, 1529, 1528, 1527>>,
  <<1526, 1525, 1524, 1524, 1523, 1522, 1521, 1520, 1519, 1518, 1518, 1517, 1516, 1515, 1514, 1513, 1512, 1512, 1511, 1510, 1509, 1508, 1507, 1506, 1506>>,
  <<1505, 1504, 1503, 1502, 1501, 1500, 1499, 1499, 1498, 1497, 1496, 1495, 1494, 1493, 1493, 1492, 1491, 1490, 1489, 1488, 1487, 1486, 1486, 1485, 1484>>,
  <<1483, 1482, 1481, 1480, 1479, 1479, 1478, 1477, 1476, 1475, 1474, 1473, 1472, 1471, 1471, 1470, 1469, 1468, 1467, 1466, 1465, 1464, 1464, 1463, 1462>>,
  <<1461, 1460, 1459, 1458, 1457, 1456, 1456, 1455, 1454, 1453, 1452, 1451, 1450, 1449, 1448, 1448, 1447, 1446, 1445, 1444, 1443, 1442, 1441, 1440, 1439>>,
  <<1439, 1438, 1437, 1436, 1435, 1434, 1433, 1432, 1431, 1430, 1430, 1429, 1428, 1427, 1426, 1425, 1424, 1423, 1422, 1421, 1420, 1420, 1419, 1418, 1417>>,
  <<1416, 1415, 1414, 1413, 1412, 1411, 1410, 1410, 1409, 1408, 1407, 1406, 1405, 1404, 1403, 1402, 1401, 1400, 1400, 1399, 1398, 1397, 1396, 1395, 1394>>,
  <<1393, 1392, 1391, 1390, 1389, 1388, 1388, 1387, 1386, 1385, 1384, 1383, 1382, 1381, 1380, 1379, 1378, 1377, 1376, 1376, 1375, 1374, 1373, 1372, 1371>>,
  <<1370, 1369, 1368, 1367, 1366, 1365, 1364, 1363, 1363, 1362, 1361, 1360, 1359, 1358, 1357, 1356, 1355, 1354, 1353, 1352, 1351, 1350, 1349, 1349, 1348>>,
  <<1347, 1346, 1345, 1344, 1343, 1342, 1341, 1340, 1339, 1338, 1337, 1336, 1335, 1334, 1333, 1333, 1332, 1331, 1330, 1329, 1328, 1327, 1326, 1325, 1324>>,
  <<1323, 1322, 1321, 1320, 1319, 1318, 1317, 1316, 1315, 1315, 1314, 1313, 1312, 1311, 1310, 1309, 1308, 1307, 1306, 1305, 1304, 1303, 1302, 1301, 1300>>,
  <<1299, 1298, 1297, 1296, 1296, 1295, 1294, 1293, 1292, 1291, 1290, 1289, 1288, 1287, 1286, 1285, 1284, 1283, 1282, 1281, 1280, 1279, 1278, 1277, 1276>>,
  <<1275, 1274, 1273, 1272, 1272, 1271, 1270, 1269, 1268, 1267, 1266, 1265, 1264, 1263, 1262, 1261, 1260, 1259, 1258, 1257, 1256, 1255, 1254, 1253, 1252>>,
  <<1251, 1250, 1249, 1248, 1247, 1246, 1245, 1244, 1244, 1243, 1242, 1241, 1240, 1239, 1238, 1237, 1236, 1235, 1234, 1233, 1232, 1231, 1230, 1229, 1228>>,
  <<1227, 1226, 1225, 1224, 1223, 1222, 1221, 1220, 1219, 1218, 1217, 1216, 1215, 1214, 1213, 1212, 1211, 1210, 1209, 1208, 1207, 1206, 1206, 1205, 1204>>,
  <<1203, 1202, 1201, 1200, 1199, 1198, 1197, 1196, 1195, 1194, 1193, 1192, 1191, 1190, 1189, 1188, 1187, 1186, 1185, 1184, 1183, 1182, 1181, 1180, 1179>>,
  <<1178, 1177, 1176, 1175, 1174, 1173, 1172, 1171, 1170, 1169, 1168, 1167, 1166, 1165, 1164, 1163, 1162, 1161, 1160, 1159, 1158, 1157, 1156, 1155, 1154>>,
  <<1153, 1152, 1151, 1150, 1149, 1148, 1147, 1146, 1145, 1144, 1143, 1142, 1142, 1141, 1140, 1139, 1138, 1137, 1136, 1135, 1134, 1133, 1132, 1131, 1130>>,
  <<1129, 1128, 1127, 1126, 1125, 1124, 1123, 1122, 1121, 1120, 1119, 1118, 1117, 1116, 1115, 1114, 1113, 1112, 1111, 1110, 1109, 1108, 1107, 1106, 1105>>,
  <<1104, 1103, 1102, 1101, 1100, 1099, 1098, 1097, 1096, 1095, 1094, 1093, 1092, 1091, 1090, 1089, 1088, 1087, 1086, 1085, 1084, 1083, 1082, 1081, 1080>>,
  <<1079, 1078, 1077, 1076, 1075, 1074, 1073, 1072, 1071, 1070, 1069, 1068, 1067, 1066, 1065, 1064, 1063, 1062, 1061, 1060, 1059, 1058, 1057, 1056, 1055>>,
  <<1054, 1053, 1052, 1051, 1050, 1049, 1048, 1047, 1046, 1045, 1044, 1043, 1042, 1041, 1040, 1039, 1038, 1037, 1036, 1035, 1034, 1033, 1032, 1031, 1030>>,
  <<1029, 1028, 1027, 1026, 1025, 1024, 1023, 1022, 1021, 1020, 1019, 1018, 1017, 1016, 1015, 1014, 1013, 1012, 1011, 1010, 1009, 1008, 1007, 1006, 1005>>,
  <<1004, 1003, 1002, 1001, 1000, 999, 998, 997, 996, 995, 994, 993, 992, 991, 990, 989, 988, 987, 986, 985, 984, 983, 982, 981, 980>>,
  <<979, 978, 977, 976, 975, 974, 973, 972, 971, 970, 969, 968, 967, 966, 965, 964, 963, 962, 961, 960, 959, 958, 957, 956, 955>>,
  <<954, 953, 952, 951, 950, 949, 948, 947, 946, 945, 944, 943, 942, 941, 940, 939, 938, 937, 936, 935, 934, 933, 932, 931, 930>>,
  <<929, 928, 927, 926, 925, 924, 923, 922, 921, 920, 919, 918, 917, 916, 915, 914, 913, 912, 911, 910, 909, 908, 907, 906, 905>>,
  <<904, 903, 902, 901, 900, 899, 898, 897, 896, 895, 894, 893, 892, 891, 890, 889, 888, 887, 886, 885, 884, 883, 882, 881, 880>>,
  <<879, 878, 877, 876, 875, 874, 873, 872, 871, 870, 869, 868, 867, 866, 865, 864, 863, 862, 861, 860, 859, 858, 857, 856, 855>>,
  <<854>>
  >>

\* Entry i of ArccosTable is arccos(i/S) rounded to the format, for i in 0..S.
ArccosTable == <<
  <<1571, 1570, 1569, 1568, 1567, 1566, 1565, 1564, 1563, 1562, 1561, 1560, 1559, 1558, 1557, 1556, 1555, 1554, 1553, 1552, 1551, 1550, 1549, 1548, 1547>>,
  <<1546, 1545, 1544, 1543, 1542, 1541, 1540, 1539, 1538, 1537, 1536, 1535, 1534, 1533, 1532, 1531, 1530, 1529, 1528, 1527, 1526, 1525, 1524, 1523, 1522>>,
  <<1521, 1520, 1519, 1518, 1517, 1516, 1515, 1514, 1513, 1512, 1511, 1510, 1509, 1508, 1507, 1506, 1505, 1504, 1503, 1502, 1501, 1500, 1499, 1498, 1497>>,
  <<1496, 1495, 1494, 1493, 1492, 1491, 1490, 1489, 1488, 1487, 1486, 1485, 1484, 1483, 1482, 1481, 1480, 1479, 1478, 1477, 1476, 1475, 1474, 1473, 1472>>,
  <<1471, 1470, 1469, 1468, 1467, 1466, 1465, 1464, 1463, 1462, 1461, 1460, 1459, 1458, 1457, 1456, 1455, 1454, 1453, 1452, 1451, 1449, 1448, 1447, 1446>>,
  <<1445, 1444, 1443, 1442, 1441, 1440, 1439, 1438, 1437, 1436, 1435, 1434, 1433, 1432, 1431, 1430, 1429, 1428, 1427, 1426, 1425, 1424, 1423, 1422, 1421>>,
  <<1420, 1419, 1418, 1417, 1416, 1415, 1414, 1413, 1412, 1411, 1410, 1409, 1408, 1407, 1406, 1405, 1404, 1403, 1402, 1401, 1400, 1399, 1398, 1397, 1396>>,
  <<1395, 1394, 1393, 1392, 1391, 1390, 1389, 1388, 1387, 1386, 1385, 1384, 1383, 1382, 1381, 1380, 1379, 1378, 1377, 1376, 1375, 1374, 1372, 1371, 1370>>,
  <<1369, 1368, 1367, 1366, 1365, 1364, 1363, 1362, 1361, 1360, 1359, 1358, 1357, 1356, 1355, 1354, 1353, 1352, 1351, 1350, 1349, 1348, 1347, 1346, 1345>>,
  <<1344, 1343, 1342, 1341, 1340, 1339, 1338, 1337, 1336, 1335, 1334, 1333, 1332, 1330, 1329, 1328, 1327, 1326, 1325, 1324, 1323, 1322, 1321, 1320, 1319>>,
  <<1318, 1317, 1316, 1315, 1314, 1313, 1312, 1311, 1310, 1309, 1308, 1307, 1306, 1305, 1304, 1303, 1302, 1301, 1299, 1298, 1297, 1296, 1295, 1294, 1293>>,
  <<1292, 1291, 1290, 1289, 1288, 1287, 1286, 1285, 1284, 1283, 1282, 1281, 1280, 1279, 1278, 1277, 1276, 1274, 1273, 1272, 1271, 1270, 1269, 1268, 1267>>,
  <<1266, 1265, 1264, 1263, 1262, 1261, 1260, 1259, 1258, 1257, 1256, 1255, 1253, 1252, 1251, 1250, 1249, 1248, 1247, 1246, 1245, 1244, 1243, 1242, 1241>>,
  <<1240, 1239, 1238, 1237, 1236, 1234, 1233, 1232, 1231, 1230, 1229, 1228, 1227, 1226, 1225, 1224, 1223, 1222, 1221, 1220, 1219, 1217, 1216, 1215, 1214>>,
  <<1213, 1212, 1211, 1210, 1209, 1208, 1207, 1206, 1205, 1204, 1203, 1201, 1200, 1199, 1198, 1197, 1196, 1195, 1194, 1193, 1192, 1191, 1190, 1189, 1187>>,
  <<1186, 1185, 1184, 1183, 1182, 1181, 1180, 1179, 1178, 1177, 1176, 1175, 1173, 1172, 1171, 1170, 1169, 1168, 1167, 1166, 1165, 1164, 1163, 1161, 1160>>,
  <<1159, 1158, 1157, 1156, 1155, 1154, 1153, 1152, 1151, 1149, 1148, 1147, 1146, 1145, 1144, 1143, 1142, 1141, 1140, 1138, 1137, 1136, 1135, 1134, 1133>>,
  <<1132, 1131, 1130, 1129, 1127, 1126, 1125, 1124, 1123, 1122, 1121, 1120, 1119, 1117, 1116, 1115, 1114, 1113, 1112, 1111, 1110, 1109, 1107, 1106, 1105>>,
  <<1104, 1103, 1102, 1101, 1100, 1098, 1097, 1096, 1095, 1094, 1093, 1092, 1091, 1089, 1088, 1087, 1086, 1085, 1084, 1083, 1082, 1080, 1079, 1078, 1077>>,
  <<1076, 1075, 1074, 1072, 1071, 1070, 1069, 1068, 1067, 1066, 1064, 1063, 1062, 1061, 1060, 1059, 1058, 1056, 1055, 1054, 1053, 1052, 1051, 1050, 1048>>,
  <<1047, 1046, 1045, 1044, 1043, 1041, 1040, 1039, 1038, 1037, 1036, 1034, 1033, 1032, 1031, 1030, 1029, 1027, 1026, 1025, 1024, 1023, 1022, 1020, 1019>>,
  <<1018, 1017, 1016, 1015, 1013, 1012, 1011, 1010, 1009, 1007, 1006, 1005, 1004, 1003, 1002, 1000, 999, 998, 997, 996, 994, 993, 992, 991, 990>>,
  <<988, 987, 986, 985, 984, 982, 981, 980, 979, 978, 976, 975, 974, 973, 972, 970, 969, 968, 967, 966, 964, 963, 962, 961, 959>>,
  <<958, 957, 956, 955, 953, 952, 951, 950, 948, 947, 946, 945, 943, 942, 941, 940, 938, 937, 936, 935, 934, 932, 931, 930, 929>>,
  <<927, 926, 925, 924, 922, 921, 920, 919, 917, 916, 915, 913, 912, 911, 910, 908, 907, 906, 905, 903, 902, 901, 900, 898, 897>>,
  <<896, 894, 893, 892, 891, 889, 888, 887, 885, 884, 883, 881, 880, 879, 878, 876, 875, 874, 872, 871, 870, 868, 867, 866, 865>>,
  <<863, 862, 861, 859, 858, 857, 855, 854, 853, 851, 850, 849, 847, 846, 845, 843, 842, 841, 839, 838, 837, 835, 834, 833, 831>>,
  <<830, 828, 827, 826, 824, 823, 822, 820, 819, 818, 816, 815, 813, 812, 811, 809, 808, 807, 805, 804, 802, 801, 800, 798, 797>>,
  <<795, 794, 793, 791, 790, 788, 787, 786, 784, 783, 781, 780, 778, 777, 776, 774, 773, 771, 770, 768, 767, 766, 764, 763, 761>>,
  <<760, 758, 757, 755, 754, 752, 751, 750, 748, 747, 745, 744, 742, 741, 739, 738, 736, 735, 733, 732, 730, 729, 727, 726, 724>>,
  <<723, 721, 720, 718, 717, 715, 714, 712, 711, 709, 707, 706, 704, 703, 701, 700, 698, 697, 695, 694, 692, 690, 689, 687, 686>>,
  <<684, 682, 681, 679, 678, 676, 675, 673, 671, 670, 668, 666, 665, 663, 662, 660, 658, 657, 655, 653, 652, 650, 648, 647, 645>>,
  <<644, 642, 640, 638, 637, 635, 633, 632, 630, 628, 627, 625, 623, 622, 620, 618, 616, 615, 613, 611, 609, 608, 606, 604, 602>>,
  <<601, 599, 597, 595, 593, 592, 590, 588, 586, 584, 583, 581, 579, 577, 575, 574, 572, 570, 568, 566, 564, 562, 560, 559, 557>>,
  <<555, 553, 551, 549, 547, 545, 543, 541, 539, 537, 536, 534, 532, 530, 528, 526, 524, 522, 520, 518, 516, 514, 512, 509, 507>>,
  <<505, 503, 501, 499, 497, 495, 493, 491, 489, 486, 484, 482, 480, 478, 476, 473, 471, 469, 467, 465, 462, 460, 458, 456, 453>>,
  <<451, 449, 446, 444, 442, 439, 437, 435, 432, 430, 428, 425, 423, 420, 418, 415, 413, 410, 408, 405, 403, 400, 398, 395, 392>>,
  <<390, 387, 384, 382, 379, 376, 374, 371, 368, 365, 363, 360, 357, 354, 351, 348, 345, 342, 339, 336, 333, 330, 327, 324, 321>>,
  <<318, 314, 311, 308, 304, 301, 298, 294, 291, 287, 284, 280, 277, 273, 269, 265, 262, 258, 254, 250, 246, 241, 237, 233, 229>>,
  <<224, 220, 215, 210, 205, 200, 195, 190, 185, 179, 173, 168, 161, 155, 148, 142, 134, 127, 118, 110, 100, 89, 77, 63, 45>>,
  <<0>>
  >>

\* Entry i of ArctanTable is arctan(i/S) rounded to the format, for i in 0..S.
ArctanTable == <<
  <<0, 1, 2, 3, 4, 5, 6, 7, 8, 9, 10, 11, 12, 13, 14, 15, 16, 17, 18, 19, 20, 21, 22, 23, 24>>,
  <<25, 26, 27, 28, 29, 30, 31, 32, 33, 34, 35, 36, 37, 38, 39, 40, 41, 42, 43, 44, 45, 46, 47, 48, 49>>,
  <<50, 51, 52, 53, 54, 55, 56, 57, 58, 59, 60, 61, 62, 63, 64, 65, 66, 67, 68, 69, 70, 71, 72, 73, 74>>,
  <<75, 76, 77, 78, 79, 80, 81, 82, 83, 84, 85, 86, 87, 88, 89, 90, 91, 92, 93, 94, 95, 96, 97, 98, 99>>,
  <<100, 101, 102, 103, 104, 105, 106, 107, 108, 109, 110, 111, 112, 113, 114, 114, 115, 116, 117, 118, 119, 120, 121, 122, 123>>,
  <<124, 125, 126, 127, 128, 129, 130, 131, 132, 133, 134, 135, 136, 137, 138, 139, 140, 141, 142, 143, 144, 145, 146, 147, 148>>,
  <<149, 150, 151, 152, 153, 154, 155, 156, 157, 158, 159, 160, 161, 162, 163, 164, 164, 165, 166, 167, 168, 169, 170, 171, 172>>,
  <<173, 174, 175, 176, 177, 178, 179, 180, 181, 182, 183, 184, 185, 186, 187, 188, 189, 190, 191, 192, 193, 194, 195, 195, 196>>,
  <<197, 198, 199, 200, 201, 202, 203, 204, 205, 206, 207, 208, 209, 210, 211, 212, 213, 214, 215, 216, 217, 218, 218, 219, 220>>,
  <<221, 222, 223, 224, 225, 226, 227, 228, 229, 230, 231, 232, 233, 234, 235, 236, 236, 237, 238, 239, 240, 241, 242, 243, 244>>,
  <<245, 246, 247, 248, 249, 250, 251, 252, 252, 253, 254, 255, 256, 257, 258, 259, 260, 261, 262, 263, 264, 265, 266, 267, 267>>,
  <<268, 269, 270, 271, 272, 273, 274, 275, 276, 277, 278, 279, 279, 280, 281, 282, 283, 284, 285, 286, 287, 288, 289, 290, 291>>,
  <<291, 292, 293, 294, 295, 296, 297, 298, 299, 300, 301, 302, 302, 303, 304, 305, 306, 307, 308, 309, 310, 311, 312, 312, 313>>,
  <<314, 315, 316, 317, 318, 319, 320, 321, 321, 322, 323, 324, 325, 326, 327, 328, 329, 330, 330, 331, 332, 333, 334, 335, 336>>,
  <<337, 338, 338, 339, 340, 341, 342, 343, 344, 345, 346, 346, 347, 348, 349, 350, 351, 352, 353, 354, 354, 355, 356, 357, 358>>,
  <<359, 360, 361, 361, 362, 363, 364, 365, 366, 367, 368, 368, 369, 370, 371, 372, 373, 374, 374, 375, 376, 377, 378, 379, 380>>,
  <<381, 381, 382, 383, 384, 385, 386, 387, 387, 388, 389, 390, 391, 392, 393, 393, 394, 395, 396, 397, 398, 398, 399, 400, 401>>,
  <<402, 403, 404, 404, 405, 406, 407, 408, 409, 409, 410, 411, 412, 413, 414, 415, 415, 416, 417, 418, 419, 420, 420, 421, 422>>,
  <<423, 424, 425, 425, 426, 427, 428, 429, 429, 430, 431, 432, 433, 434, 434, 435, 436, 437, 438, 439, 439, 440, 441, 442, 443>>,
  <<443, 444, 445, 446, 447, 448, 448, 449, 450, 451, 452, 452, 453, 454, 455, 456, 456, 457, 458, 459, 460, 460, 461, 462, 463>>,
  <<464, 464, 465, 466, 467, 468, 468, 469, 470, 471, 472, 472, 473, 474, 475, 476, 476, 477, 478, 479, 480, 480, 481, 482, 483>>,
  <<483, 484, 485, 486, 487, 487, 488, 489, 490, 490, 491, 492, 493, 494, 494, 495, 496, 497, 497, 498, 499, 500, 501, 501, 502>>,
  <<503, 504, 504, 505, 506, 507, 507, 508, 509, 510, 510, 511, 512, 513, 514, 514, 515, 516, 517, 517, 518, 519, 520, 520, 521>>,
  <<522, 523, 523, 524, 525, 526, 526, 527, 528, 529, 529, 530, 531, 532, 532, 533, 534, 535, 535, 536, 537, 537, 538, 539, 540>>,
  <<540, 541, 542, 543, 543, 544, 545, 546, 546, 547, 548, 548, 549, 550, 551, 551, 552, 553, 554, 554, 555, 556, 556, 557, 558>>,
  <<559, 559, 560, 561, 561, 562, 563, 564, 564, 565, 566, 566, 567, 568, 569, 569, 570, 571, 571, 572, 573, 574, 574, 575, 576>>,
  <<576, 577, 578, 578, 579, 580, 581, 581, 582, 583, 583, 584, 585, 585, 586, 587, 588, 588, 589, 590, 590, 591, 592, 592, 593>>,
  <<594, 594, 595, 596, 596, 597, 598, 599, 599, 600, 601, 601, 602, 603, 603, 604, 605, 605, 606, 607, 607, 608, 609, 609, 610>>,
  <<611, 611, 612, 613, 613, 614, 615, 615, 616, 617, 617, 618, 619, 619, 620, 621, 621, 622, 623, 623, 624, 625, 625, 626, 627>>,
  <<627, 628, 629, 629, 630, 631, 631, 632, 633, 633, 634, 634, 635, 636, 636, 637, 638, 638, 639, 640, 640, 641, 642, 642, 643>>,
  <<644, 644, 645, 645, 646, 647, 647, 648, 649, 649, 650, 651, 651, 652, 652, 653, 654, 654, 655, 656, 656, 657, 657, 658, 659>>,
  <<659, 660, 661, 661, 662, 662, 663, 664, 664, 665, 666, 666, 667, 667, 668, 669, 669, 670, 670, 671, 672, 672, 673, 674, 674>>,
  <<675, 675, 676, 677, 677, 678, 678, 679, 680, 680, 681, 681, 682, 683, 683, 684, 684, 685, 686, 686, 687, 687, 688, 689, 689>>,
  <<690, 690, 691, 692, 692, 693, 693, 694, 695, 695, 696, 696, 697, 697, 698, 699, 699, 700, 700, 701, 702, 702, 703, 703, 704>>,
  <<704, 705, 706, 706, 707, 707, 708, 709, 709, 710, 710, 711, 711, 712, 713, 713, 714, 714, 715, 715, 716, 717, 717, 718, 718>>,
  <<719, 719, 720, 721, 721, 722, 722, 723, 723, 724, 724, 725, 726, 726, 727, 727, 728, 728, 729, 729, 730, 731, 731, 732, 732>>,
  <<733, 733, 734, 734, 735, 736, 736, 737, 737, 738, 738, 739, 739, 740, 740, 741, 742, 742, 743, 743, 744, 744, 745, 745, 746>>,
  <<746, 747, 748, 748, 749, 749, 750, 750, 751, 751, 752, 752, 753, 753, 754, 754, 755, 756, 756, 757, 757, 758, 758, 759, 759>>,
  <<760, 760, 761, 761, 762, 762, 763, 763, 764, 764, 765, 766, 766, 767, 767, 768, 768, 769, 769, 770, 770, 771, 771, 772, 772>>,
  <<773, 773, 774, 774, 775, 775, 776, 776, 777, 777, 778, 778, 779, 779, 780, 780, 781, 781, 782, 782, 783, 783, 784, 784, 785>>,
  <<785>>
  >>

\* The arguments of sin and cos the tables cover: |r| <= RMax units.
RMax == 8 * S

\* np.sin(r), r in radians.
np_sin(r) ==
  IF ~IsFinite(r) \/ Abs(r) > RMax THEN NaN
  ELSE Sgn(r) * (TableAt(SinTable, Abs(r)) - S)

\* np.cos(r), r in radians.
np_cos(r) ==
  IF ~IsFinite(r) \/ Abs(r) > RMax THEN NaN
  ELSE TableAt(CosTable, Abs(r)) - S

\* np.arccos(c): NaN outside [-1, 1]; arccos(-1) is np.pi.
np_arccos(c) ==
  IF IsNaN(c) \/ c > S \/ c < -S THEN NaN
  ELSE IF c >= 0 THEN TableAt(ArccosTable, c)
  ELSE np_pi - TableAt(ArccosTable, -c)

RECURSIVE ISqrtSearch(_, _, _)
\* The largest r in lo..hi with r * r <= n.
ISqrtSearch(n, lo, hi) ==
  IF lo >= hi THEN lo
  ELSE LET mid == (lo + hi + 1) \div 2
       IN  IF mid * mid <= n THEN ISqrtSearch(n, mid, hi)
           ELSE ISqrtSearch(n, lo, mid - 1)

ISqrt(n) == ISqrtSearch(n, 0, 46340)

\* np.sqrt(v): NaN for a negative number.
np_sqrt(v) ==
  IF IsNaN(v) \/ v < 0 THEN NaN
  ELSE IF v = PInf THEN PInf
  ELSE IF v <= MaxFix \div S
       THEN LET r == ISqrt(v * S)
            IN  IF v * S - r * r > r THEN r + 1 ELSE r
  ELSE ISqrt(v \div S) * S

\* np.pi / 2, the value of arctan2(1, 0).
HalfPi == RoundDiv(np_pi, 2)

\* arctan(ay / ax) for ay, ax >= 0, not both zero: in [0, np.pi / 2].
ArctanRatio(ay, ax) ==
  IF ay <= ax THEN TableAt(ArctanTable, RoundDiv(ay * S, ax))
  ELSE HalfPi - TableAt(ArctanTable, RoundDiv(ax * S, ay))

\* The angle of the quadrant of (x, y) whose angle to the x axis is base.
Quadrant(y, x, base) ==
  IF x >= 0 THEN (IF y >= 0 THEN base ELSE -base)
  ELSE (IF y >= 0 THEN np_pi - base ELSE -(np_pi - base))

\* A coordinate too large to divide, scaled down; the angle depends on the
\* ratio alone.
Scaled(v, large) == IF large THEN Sgn(v) * (Abs(v) \div S) ELSE v

\* arctan2 of finite y and x, not both zero, with |y|, |x| small enough to
\* divide.
Arctan2Finite(y, x) ==
  Quadrant(y, x, ArctanRatio(Abs(y), Abs(x)))

\* np.arctan2(y, x), in (-np.pi, np.pi].
np_arctan2(y, x) ==
  IF IsNaN(y) \/ IsNaN(x) THEN NaN
  ELSE IF IsInf(y)
       THEN LET base == IF IsFinite(x) THEN HalfPi
                        ELSE IF x = PInf THEN RoundDiv(HalfPi, 2)
                        ELSE np_pi - RoundDiv(HalfPi, 2)
            IN  IF y > 0 THEN base ELSE -base
  ELSE IF IsInf(x)
       THEN (IF x = PInf THEN 0 ELSE IF y >= 0 THEN np_pi ELSE -np_pi)
  ELSE IF x = 0 /\ y = 0 THEN 0
  ELSE Arctan2Finite(
         Scaled(y, Abs(y) > MaxFix \div S \/ Abs(x) > MaxFix \div S),
         Scaled(x, Abs(y) > MaxFix \div S \/ Abs(x) > MaxFix \div S))

\* A faulty variant: np.linspace(start, stop, num, endpoint=False)[1:], which
\* loses one sample.
np_linspace_short(start, stop, num) ==
  [k \in 1..(num - 1) |-> fl_div(fl_mul(FromInt(k), fl_sub(stop, start)), FromInt(num))]

\* np.linspace(start, stop, num): num evenly spaced numbers, the last one
\* set to stop itself.
np_linspace(start, stop, num) ==
  LET div == num - 1
      step == IF div > 0 THEN fl_div(fl_sub(stop, start), FromInt(div)) ELSE NaN
  IN  [k \in 1..num |->
         IF num > 1 /\ k = num THEN stop
         ELSE IF div > 0 THEN fl_add(fl_mul(FromInt(k - 1), step), start)
         ELSE fl_add(fl_mul(FromInt(k - 1), fl_sub(stop, start)), start)]

(* ----------------------------------------------------------------------- *)
(* 1. Utility: degrees to radians, great-circle points                     *)
(* ----------------------------------------------------------------------- *)

\* deg * np.pi / 180.0
to_radians(deg) == fl_div(fl_mul(deg, np_pi), FromInt(180))

\* rad * 180.0 / np.pi, the conversion at the end of each step.
to_degrees(rad) == fl_div(fl_mul(rad, FromInt(180)), np_pi)

\* The central angle of the two points (spherical law of cosines).
central_angle(lat1_r, lon1_r, lat2_r, lon2_r) ==
  np_arccos(
    fl_add(fl_mul(np_sin(lat1_r), np_sin(lat2_r)),
           fl_mul(fl_mul(np_cos(lat1_r), np_cos(lat2_r)),
                  np_cos(fl_sub(lon2_r, lon1_r)))))

\* The weight of the first endpoint at fraction s.
weight_A(s, delta) ==
  fl_div(np_sin(fl_mul(fl_sub(FromInt(1), s), delta)), np_sin(delta))

\* A faulty variant: the second weight without its division by sin(delta).
weight_B_unnormalised(s, delta) ==
  np_sin(fl_mul(s, delta))

\* The weight of the second endpoint at fraction s.
weight_B(s, delta) ==
  fl_div(np_sin(fl_mul(s, delta)), np_sin(delta))

\* lat_gc and lon_gc, in degrees, of the vector <<x, y, z>>.
gc_lat_lon(x, y, z) ==
  <<to_degrees(np_arctan2(z, np_sqrt(fl_add(fl_mul(x, x), fl_mul(y, y))))),
    to_degrees(np_arctan2(y, x))>>

\* x, y and z of the blend of the two endpoints with weights A and B, as
\* the point <<lat_gc, lon_gc>>.
gc_blend(A, B, lat1_r, lon1_r, lat2_r, lon2_r) ==
  gc_lat_lon(
    fl_add(fl_mul(fl_mul(A, np_cos(lat1_r)), np_cos(lon1_r)),
           fl_mul(fl_mul(B, np_cos(lat2_r)), np_cos(lon2_r))),
    fl_add(fl_mul(fl_mul(A, np_cos(lat1_r)), np_sin(lon1_r)),
           fl_mul(fl_mul(B, np_cos(lat2_r)), np_sin(lon2_r))),
    fl_add(fl_mul(A, np_sin(lat1_r)), fl_mul(B, np_sin(lat2_r))))

\* One pass of the loop body: the point <<lat_gc, lon_gc>> at fraction s.
gc_step(s, delta, lat1_r, lon1_r, lat2_r, lon2_r) ==
  gc_blend(weight_A(s, delta), weight_B(s, delta),
           lat1_r, lon1_r, lat2_r, lon2_r)

\* <<lat_points, lon_points>> of a list of points <<lat_gc, lon_gc>>.
gc_lists(points) ==
  <<[k \in 1..Len(points) |-> points[k][1]],
    [k \in 1..Len(points) |-> points[k][2]]>>

\* The loop over step_array: the lists start empty and one point is
\* appended per element, in order.
gc_loop(delta, lat1_r, lon1_r, lat2_r, lon2_r, step_array) ==
  gc_lists(<<>> \o [k \in 1..Len(step_array) |->
                      gc_step(step_array[k], delta, lat1_r, lon1_r, lat2_r, lon2_r)])

\* The function from the endpoints in radians on: delta, step_array and
\* the loop.
gc_from_radians(lat1_r, lon1_r, lat2_r, lon2_r, num_points) ==
  gc_loop(central_angle(lat1_r, lon1_r, lat2_r, lon2_r),
          lat1_r, lon1_r, lat2_r, lon2_r,
          np_linspace(FromInt(0), FromInt(1), num_points))

\* great_circle_points(lat1, lon1, lat2, lon2, num_points): the pair
\* <<lat_points, lon_points>>, one latitude and one longitude appended per
\* element of step_array, in order.  The function has no raise statement
\* and numpy scalars do not raise on division by zero, so every call
\* returns.
great_circle_points(lat1, lon1, lat2, lon2, num_points) ==
  gc_from_radians(to_radians(lat1), to_radians(lon1),
                  to_radians(lat2), to_radians(lon2), num_points)

\* The default of the parameter num_points.
num_points_default == 50

(* ----------------------------------------------------------------------- *)
(* 2, 3. The flight tables                                                 *)
(*                                                                         *)
(* A Python string is the sequence of its characters.  A coordinate of    *)
(* the tables is the decimal literal of the source, an integer count of   *)
(* 1/DecimalUnit degrees.                                                  *)
(* ----------------------------------------------------------------------- *)

\* The decimal literals of the tables have four fractional digits.
DecimalUnit == 10000

\* The float a decimal literal denotes.
Float(d) == RoundDiv(d * S, DecimalUnit)

\* The base flights, checked by default.
BASE_FLIGHTS == <<
  [id |-> <<"l", "a", "x", "_", "t", "o", "k", "y", "o">>,
   label |-> <<"L", "o", "s", " ", "A", "n", "g", "e", "l", "e", "s", " ", "→", " ", "T", "o", "k", "y", "o">>,
   checked |-> TRUE,
   cities |-> <<<<<<"L", "o", "s", " ", "A", "n", "g", "e", "l", "e", "s">>, 340522, -1182437>>,
                <<<<"T", "o", "k", "y", "o">>, 356895, 1396917>>>>],
  [id |-> <<"n", "y", "c", "_", "s", "y", "d", "n", "e", "y">>,
   label |-> <<"N", "e", "w", " ", "Y", "o", "r", "k", " ", "→", " ", "S", "y", "d", "n", "e", "y">>,
   checked |-> TRUE,
   cities |-> <<<<<<"N", "e", "w", " ", "Y", "o", "r", "k">>, 407128, -740060>>,
                <<<<"S", "y", "d", "n", "e", "y">>, -338688, 1512093>>>>],
  [id |-> <<"l", "o", "n", "d", "o", "n", "_", "b", "u", "e", "n", "o", "s", "a", "i", "r", "e", "s">>,
   label |-> <<"L", "o", "n", "d", "o", "n", " ", "→", " ", "B", "u", "e", "n", "o", "s", " ", "A", "i", "r", "e", "s">>,
   checked |-> TRUE,
   cities |-> <<<<<<"L", "o", "n", "d", "o", "n">>, 515074, 1278>>,
                <<<<"B", "u", "e", "n", "o", "s", " ", "A", "i", "r", "e", "s">>, -346037, -583816>>>>],
  [id |-> <<"s", "e", "a", "t", "t", "l", "e", "_", "j", "o", "h", "a", "n", "n", "e", "s", "b", "u", "r", "g">>,
   label |-> <<"S", "e", "a", "t", "t", "l", "e", " ", "→", " ", "J", "o", "h", "a", "n", "n", "e", "s", "b", "u", "r", "g">>,
   checked |-> TRUE,
   cities |-> <<<<<<"S", "e", "a", "t", "t", "l", "e">>, 476062, -1223321>>,
                <<<<"J", "o", "h", "a", "n", "n", "e", "s", "b", "u", "r", "g">>, -262041, 280473>>>>],
  [id |-> <<"p", "a", "r", "i", "s", "_", "b", "e", "i", "j", "i", "n", "g">>,
   label |-> <<"P", "a", "r", "i", "s", " ", "→", " ", "B", "e", "i", "j", "i", "n", "g">>,
   checked |-> TRUE,
   cities |-> <<<<<<"P", "a", "r", "i", "s">>, 488566, 23522>>,
                <<<<"B", "e", "i", "j", "i", "n", "g">>, 399042, 1164074>>>>],
  [id |-> <<"v", "a", "n", "c", "o", "u", "v", "e", "r", "_", "r", "i", "o">>,
   label |-> <<"V", "a", "n", "c", "o", "u", "v", "e", "r", " ", "→", " ", "R", "i", "o", " ", "d", "e", " ", "J", "a", "n", "e", "i", "r", "o">>,
   checked |-> TRUE,
   cities |-> <<<<<<"V", "a", "n", "c", "o", "u", "v", "e", "r">>, 492827, -1231207>>,
                <<<<"R", "i", "o", " ", "d", "e", " ", "J", "a", "n", "e", "i", "r", "o">>, -229068, -431729>>>>]
>>

\* The major cities the additional flights are generated from.
city_data == <<
  <<<<"C", "h", "i", "c", "a", "g", "o">>, 418781, -876298>>,
  <<<<"C", "a", "i", "r", "o">>, 300444, 312357>>,
  <<<<"M", "e", "x", "i", "c", "o", " ", "C", "i", "t", "y">>, 194326, -991332>>,
  <<<<"M", "o", "s", "c", "o", "w">>, 557558, 376173>>,
  <<<<"N", "e", "w", " ", "D", "e", "l", "h", "i">>, 286139, 772090>>,
  <<<<"R", "o", "m", "e">>, 419028, 124964>>,
  <<<<"C", "a", "p", "e", " ", "T", "o", "w", "n">>, -339249, 184241>>,
  <<<<"D", "u", "b", "a", "i">>, 252048, 552708>>,
  <<<<"L", "i", "m", "a">>, -120464, -770428>>,
  <<<<"H", "o", "n", "g", " ", "K", "o", "n", "g">>, 223193, 1141694>>,
  <<<<"A", "u", "c", "k", "l", "a", "n", "d">>, -368485, 1747633>>,
  <<<<"T", "o", "r", "o", "n", "t", "o">>, 436532, -793832>>,
  <<<<"S", "i", "n", "g", "a", "p", "o", "r", "e">>, 13521, 1038198>>
>>

\* The two flights appended by hand after the loop.
MANUAL_FLIGHTS == <<
  [id |-> <<"s", "a", "n", "t", "i", "a", "g", "o", "_", "i", "s", "t", "a", "n", "b", "u", "l">>,
   label |-> <<"S", "a", "n", "t", "i", "a", "g", "o", " ", "→", " ", "I", "s", "t", "a", "n", "b", "u", "l">>,
   checked |-> FALSE,
   cities |-> <<<<<<"S", "a", "n", "t", "i", "a", "g", "o">>, -334489, -706693>>,
                <<<<"I", "s", "t", "a", "n", "b", "u", "l">>, 410082, 289784>>>>],
  [id |-> <<"t", "o", "k", "y", "o", "_", "r", "o", "m", "e">>,
   label |-> <<"T", "o", "k", "y", "o", " ", "→", " ", "R", "o", "m", "e">>,
   checked |-> FALSE,
   cities |-> <<<<<<"T", "o", "k", "y", "o">>, 356895, 1396917>>,
                <<<<"R", "o", "m", "e">>, 419028, 124964>>>>]
>>

\* c.lower() of one character.
LowerChar(c) ==
  CASE c = "A" -> "a" [] c = "B" -> "b" [] c = "C" -> "c" [] c = "D" -> "d"
    [] c = "E" -> "e" [] c = "F" -> "f" [] c = "G" -> "g" [] c = "H" -> "h"
    [] c = "I" -> "i" [] c = "J" -> "j" [] c = "K" -> "k" [] c = "L" -> "l"
    [] c = "M" -> "m" [] c = "N" -> "n" [] c = "O" -> "o" [] c = "P" -> "p"
    [] c = "Q" -> "q" [] c = "R" -> "r" [] c = "S" -> "s" [] c = "T" -> "t"
    [] c = "U" -> "u" [] c = "V" -> "v" [] c = "W" -> "w" [] c = "X" -> "x"
    [] c = "Y" -> "y" [] c = "Z" -> "z" [] OTHER -> c

\* s.lower()
str_lower(s) == [k \in 1..Len(s) |-> LowerChar(s[k])]

\* s.replace(old, new) for single characters old and new.
str_replace(s, old, new) == [k \in 1..Len(s) |-> IF s[k] = old THEN new ELSE s[k]]

\* A faulty variant: the id built from the first city alone.
flight_id_first_city(nameA, nameB) ==
  str_replace(str_lower(nameA), " ", "_")

\* f"{cityA.lower().replace(' ', '_')}_{cityB.lower().replace(' ', '_')}"
flight_id(nameA, nameB) ==
  str_replace(str_lower(nameA), " ", "_") \o <<"_">>
    \o str_replace(str_lower(nameB), " ", "_")

\* f"{cityA} → {cityB}"
flight_label(nameA, nameB) == nameA \o <<" ", "→", " ">> \o nameB

\* The dictionary the loop body builds for the pair city_data[i], city_data[j].
flight_dict(i, j) ==
  LET cityA == city_data[i][1]
      latA == city_data[i][2]
      lonA == city_data[i][3]
      cityB == city_data[j][1]
      latB == city_data[j][2]
      lonB == city_data[j][3]
  IN  [id |-> flight_id(cityA, cityB),
       label |-> flight_label(cityA, cityB),
       checked |-> FALSE,
       cities |-> <<<<cityA, latA, lonA>>, <<cityB, latB, lonB>>>>]

RECURSIVE generate_flights(_, _)
\* The nested loops from the outer pass i on (indices from 1): for i in
\* range(len(city_data)), for j in range(i+1, len(city_data)), one
\* dictionary appended per pair.
generate_flights(i, flights) ==
  IF i > Len(city_data) THEN flights
  ELSE generate_flights(
         i + 1,
         flights \o [n \in 1..(Len(city_data) - i) |-> flight_dict(i, i + n)])

\* ADDITIONAL_FLIGHTS after the loop and the two appends.
ADDITIONAL_FLIGHTS == generate_flights(1, <<>>) \o MANUAL_FLIGHTS

\* FLIGHT_PATHS = BASE_FLIGHTS + ADDITIONAL_FLIGHTS, as the module sets it.
FLIGHT_PATHS_at_import == BASE_FLIGHTS \o ADDITIONAL_FLIGHTS

\* [f["id"] for f in flights if f["checked"]]
checked_ids(flights) ==
  LET checked == SelectSeq(flights, LAMBDA f : f.checked)
  IN  [k \in 1..Len(checked) |-> checked[k].id]

(* ----------------------------------------------------------------------- *)
(* The state                                                               *)
(* ----------------------------------------------------------------------- *)

VARIABLES
  FLIGHT_PATHS,            \* the module-level list of flight dictionaries
  default_checked_values,  \* the module-level list of ids checked at start
  pc,                      \* "idle", or "returned" after an invocation
  call,                    \* the invocation: its function and arguments
  ret,                     \* what the invocation gave back to its caller
  gc_calls                 \* the great_circle_points invocations it made

vars == <<FLIGHT_PATHS, default_checked_values, pc, call, ret, gc_calls>>

(* ----------------------------------------------------------------------- *)
(* 4. Functions to create the figures                                      *)
(* ----------------------------------------------------------------------- *)

\* The arguments of the great_circle_points call a figure makes for a flight.
gc_args(flight) ==
  <<Float(flight.cities[1][2]), Float(flight.cities[1][3]),
    Float(flight.cities[2][2]), Float(flight.cities[2][3]),
    num_points_default>>

\* go.Scattergeo(lat=lat_gc, lon=lon_gc, mode='lines', ...), gc being the
\* pair <<lat_gc, lon_gc>>.
line_trace(gc, label) ==
  [lat |-> gc[1], lon |-> gc[2], mode |-> "lines",
   line |-> [width |-> 2, color |-> "red"], name |-> label]

\* The red line of a flight, along the points great_circle_points returns
\* with the default num_points.
path_trace(flight) ==
  line_trace(
    great_circle_points(Float(flight.cities[1][2]), Float(flight.cities[1][3]),
                        Float(flight.cities[2][2]), Float(flight.cities[2][3]),
                        num_points_default),
    flight.label)

\* The two endpoint markers of a flight.
endpoint_trace(flight) ==
  [lat |-> <<flight.cities[1][2], flight.cities[2][2]>>,
   lon |-> <<flight.cities[1][3], flight.cities[2][3]>>,
   mode |-> "markers+text",
   text |-> <<flight.cities[1][1], flight.cities[2][1]>>,
   textposition |-> <<"top center", "top center">>,
   marker |-> [size |-> 5, color |-> "blue"], showlegend |-> FALSE]

RECURSIVE globe_loop(_, _, _, _)
\* The loop of create_globe_figure from flight i on: <<globe_data, the
\* great_circle_points calls made>>.
globe_loop(selected_flights, i, globe_data, calls) ==
  IF i > Len(selected_flights) THEN <<globe_data, calls>>
  ELSE LET flight == selected_flights[i]
       IN  globe_loop(selected_flights, i + 1,
                      Append(Append(globe_data, path_trace(flight)),
                             endpoint_trace(flight)),
                      Append(calls, gc_args(flight)))

\* go.Figure(data=globe_data, layout=globe_layout), run being the pair the
\* loop ends with.
globe_figure(run) ==
  [figure |-> [data |-> run[1],
               layout |-> [title |-> "Flight Paths on 3D Globe (Orthographic Projection)",
                           projection |-> "orthographic"]],
   calls |-> run[2]]

\* create_globe_figure(selected_flights): the figure, and the
\* great_circle_points calls made while building it.
create_globe_figure(selected_flights) ==
  globe_figure(globe_loop(selected_flights, 1, <<>>, <<>>))

\* projection.capitalize() for the projections used.
str_capitalize(projection) ==
  CASE projection = "equirectangular" -> "Equirectangular"
    [] projection = "mercator" -> "Mercator"
    [] OTHER -> projection

RECURSIVE map_loop(_, _, _, _)
\* The loop of create_2d_figure from flight i on: <<map_data, the
\* great_circle_points calls made>>.
map_loop(selected_flights, i, map_data, calls) ==
  IF i > Len(selected_flights) THEN <<map_data, calls>>
  ELSE LET flight == selected_flights[i]
       IN  map_loop(selected_flights, i + 1,
                    Append(Append(map_data, path_trace(flight)),
                           endpoint_trace(flight)),
                    Append(calls, gc_args(flight)))

\* go.Figure(data=map_data, layout=map_layout), run being the pair the
\* loop ends with.
map_figure(run, projection) ==
  [figure |-> [data |-> run[1],
               layout |-> [title |-> <<"Flight Paths on 2D Map (",
                                       str_capitalize(projection),
                                       " Projection)">>,
                           projection |-> projection]],
   calls |-> run[2]]

\* create_2d_figure(selected_flights, projection): the figure, and the
\* great_circle_points calls made while building it.
create_2d_figure(selected_flights, projection) ==
  map_figure(map_loop(selected_flights, 1, <<>>, <<>>), projection)

(* ----------------------------------------------------------------------- *)
(* 6. The callback                                                         *)
(* ----------------------------------------------------------------------- *)

\* x in l, for a Python list l.
InList(x, l) == \E k \in 1..Len(l) : l[k] = x

\* A faulty variant: the flights are taken in the order of selected_ids, one
\* per occurrence of an id.
filter_flights_in_click_order(selected_ids) ==
  LET Matches(id) == SelectSeq(FLIGHT_PATHS, LAMBDA f : f.id = id)
      Collect[k \in 0..Len(selected_ids)] ==
        IF k = 0 THEN <<>> ELSE Collect[k - 1] \o Matches(selected_ids[k])
  IN  Collect[Len(selected_ids)]

\* [f for f in FLIGHT_PATHS if f["id"] in selected_ids]
filter_flights(selected_ids) ==
  SelectSeq(FLIGHT_PATHS, LAMBDA f : InList(f.id, selected_ids))

\* return globe_fig, map_fig: the pair of figures, and the
\* great_circle_points calls made for the first and then for the second.
callback_outputs(globe, map) ==
  [value |-> <<globe.figure, map.figure>>,
   calls |-> globe.calls \o map.calls]

\* The two figures of the flights kept.
both_figures(selected_flights) ==
  callback_outputs(create_globe_figure(selected_flights),
                   create_2d_figure(selected_flights, "equirectangular"))

\* A variant that computes each path once and draws both figures from it.
update_flights_shared_paths(selected_ids) ==
  [value |-> both_figures(filter_flights(selected_ids)).value,
   calls |-> create_globe_figure(filter_flights(selected_ids)).calls]

\* update_flights(selected_ids): the pair of figures returned, and the
\* great_circle_points calls made.
update_flights(selected_ids) ==
  both_figures(filter_flights(selected_ids))

(* ----------------------------------------------------------------------- *)
(* The inputs                                                              *)
(* ----------------------------------------------------------------------- *)

\* Latitudes and longitudes, in whole degrees, that calls are made with.
\* ValidLats x ValidLons holds identical points, antipodal points ((0, 0)
\* and (0, 180)), two coordinate pairs for one point ((0, 180) and
\* (0, -180)), a pair closer than arccos resolves ((0, 0) and (0, 1)),
\* paths through a pole and paths across the antimeridian.
ValidLats == {-45, 0, 30}
ValidLons == {-180, -90, 0, 1, 135, 180}

\* Values outside [-90, 90] and [-180, 180].
InvalidLats == {100}
InvalidLons == {270}

InLats == ValidLats \cup InvalidLats
InLons == ValidLons \cup InvalidLons

\* The largest num_points of a direct call.
MaxPoints == 4

\* The longest selected_ids list.
MaxSelected == 2

\* The ids the checklist sends: base, generated and hand-appended flights,
\* and one id that is no flight's.
SampleIds ==
  {FLIGHT_PATHS_at_import[1].id, FLIGHT_PATHS_at_import[7].id,
   FLIGHT_PATHS_at_import[40].id, FLIGHT_PATHS_at_import[86].id,
   <<"n", "o", "_", "s", "u", "c", "h">>}

RECURSIVE ListsUpTo(_, _)
\* The lists over set s of length at most n.
ListsUpTo(s, n) ==
  IF n = 0 THEN {<<>>}
  ELSE LET shorter == ListsUpTo(s, n - 1)
       IN  shorter \cup {Append(l, x) : l \in shorter, x \in s}

\* The lists update_flights is fired with: the checklist's initial value,
\* which Dash sends when the page loads, and the short lists.
SelectedIdLists ==
  ListsUpTo(SampleIds, MaxSelected) \cup {checked_ids(FLIGHT_PATHS_at_import)}

\* The flight lists the figure builders are called with directly.
SelectedFlightLists ==
  {SelectSeq(FLIGHT_PATHS_at_import, LAMBDA f : InList(f.id, l)) :
     l \in ListsUpTo(SampleIds, 1)}

(* ----------------------------------------------------------------------- *)
(* The state machine                                                       *)
(* ----------------------------------------------------------------------- *)

NoCall == [op |-> "none", args |-> <<>>]
NoReturn == [raised |-> "none", value |-> <<>>]

\* The state once the module has been imported.
Init ==
  /\ FLIGHT_PATHS = FLIGHT_PATHS_at_import
  /\ default_checked_values = checked_ids(FLIGHT_PATHS_at_import)
  /\ pc = "idle"
  /\ call = NoCall
  /\ ret = NoReturn
  /\ gc_calls = <<>>

\* A call of great_circle_points.
GreatCirclePoints ==
  /\ pc = "idle"
  /\ \E lat1 \in InLats, lon1 \in InLons, lat2 \in InLats, lon2 \in InLons,
        num_points \in 1..MaxPoints :
       LET args == <<FromInt(lat1), FromInt(lon1), FromInt(lat2),
                     FromInt(lon2), num_points>>
       IN  /\ call' = [op |-> "great_circle_points", args |-> args]
           /\ ret' = [raised |-> "none",
                      value |-> great_circle_points(args[1], args[2], args[3],
                                                    args[4], args[5])]
           /\ gc_calls' = <<args>>
  /\ pc' = "returned"
  /\ UNCHANGED <<FLIGHT_PATHS, default_checked_values>>

\* A call of create_globe_figure.
CreateGlobeFigure ==
  /\ pc = "idle"
  /\ \E selected_flights \in SelectedFlightLists :
       \E run \in {create_globe_figure(selected_flights)} :
           /\ call' = [op |-> "create_globe_figure", args |-> <<selected_flights>>]
           /\ ret' = [raised |-> "none", value |-> run.figure]
           /\ gc_calls' = run.calls
  /\ pc' = "returned"
  /\ UNCHANGED <<FLIGHT_PATHS, default_checked_values>>

\* A call of create_2d_figure.
Create2dFigure ==
  /\ pc = "idle"
  /\ \E selected_flights \in SelectedFlightLists,
        projection \in {"equirectangular", "mercator"} :
       \E run \in {create_2d_figure(selected_flights, projection)} :
           /\ call' = [op |-> "create_2d_figure",
                       args |-> <<selected_flights, projection>>]
           /\ ret' = [raised |-> "none", value |-> run.figure]
           /\ gc_calls' = run.calls
  /\ pc' = "returned"
  /\ UNCHANGED <<FLIGHT_PATHS, default_checked_values>>

\* A faulty variant of the callback: it stores the selection in the
\* registry's checked flags.
UpdateFlightsStoringSelection ==
  /\ pc = "idle"
  /\ \E selected_ids \in SelectedIdLists :
       \E run \in {update_flights(selected_ids)} :
           /\ call' = [op |-> "update_flights", args |-> <<selected_ids>>]
           /\ ret' = [raised |-> "none", value |-> run.value]
           /\ gc_calls' = run.calls
           /\ FLIGHT_PATHS' =
                [i \in 1..Len(FLIGHT_PATHS) |->
                   [FLIGHT_PATHS[i] EXCEPT !.checked = InList(FLIGHT_PATHS[i].id, selected_ids)]]
  /\ pc' = "returned"
  /\ UNCHANGED default_checked_values

\* The callback update_flights, fired with the checklist's value.
UpdateFlights ==
  /\ pc = "idle"
  /\ \E selected_ids \in SelectedIdLists :
       \E run \in {update_flights(selected_ids)} :
           /\ call' = [op |-> "update_flights", args |-> <<selected_ids>>]
           /\ ret' = [raised |-> "none", value |-> run.value]
           /\ gc_calls' = run.calls
  /\ pc' = "returned"
  /\ UNCHANGED <<FLIGHT_PATHS, default_checked_values>>

\* The caller takes the result; the next invocation can start.
Return ==
  /\ pc = "returned"
  /\ pc' = "idle"
  /\ call' = NoCall
  /\ ret' = NoReturn
  /\ gc_calls' = <<>>
  /\ UNCHANGED <<FLIGHT_PATHS, default_checked_values>>

Next ==
  \/ GreatCirclePoints
  \/ CreateGlobeFigure
  \/ Create2dFigure
  \/ UpdateFlights
  \/ Return

Spec == Init /\ [][Next]_vars

(* ----------------------------------------------------------------------- *)
(* Vocabulary of the properties                                            *)
(* ----------------------------------------------------------------------- *)

\* The tolerance of the format, in units of 1/S degree.
Tol == 500

\* The invocation of function op has returned.
Returned(op) == pc = "returned" /\ call.op = op

\* A point inside the valid ranges of latitude and longitude.
IsValidPoint(lat, lon) ==
  /\ lat >= FromInt(-90) /\ lat <= FromInt(90)
  /\ lon >= FromInt(-180) /\ lon <= FromInt(180)

BothValid(a) == IsValidPoint(a[1], a[2]) /\ IsValidPoint(a[3], a[4])

\* The two endpoints are the same pair of coordinates.
Identical(a) == a[1] = a[3] /\ a[2] = a[4]

\* The two endpoints are diametrically opposite.
Antipodal(a) ==
  /\ a[1] + a[3] = 0
  /\ (Abs(a[2] - a[4]) = FromInt(180) \/ Abs(a[1]) = FromInt(90))

\* The central angle the call computes from its arguments.
DeltaOf(a) ==
  central_angle(to_radians(a[1]), to_radians(a[2]),
                to_radians(a[3]), to_radians(a[4]))

\* u is a number within Tol of v.
Close(u, v) == IsFinite(u) /\ IsFinite(v) /\ Abs(u - v) <= Tol

\* Two longitudes within Tol of each other around the circle.
CloseLon(u, v) ==
  /\ IsFinite(u) /\ IsFinite(v)
  /\ (Abs(u - v) <= Tol \/ FromInt(360) - Abs(u - v) <= Tol)

\* A latitude within Tol of a pole.
AtPole(lat) == IsFinite(lat) /\ Abs(lat) >= FromInt(90) - Tol

\* The first and last points of result r are the endpoints of arguments a.
EndpointsMatch(a, r) ==
  /\ Len(r[1]) = a[5] /\ Len(r[2]) = a[5]
  /\ Close(r[1][1], a[1]) /\ Close(r[2][1], a[2])
  /\ Close(r[1][a[5]], a[3]) /\ Close(r[2][a[5]], a[4])

\* The positions in FLIGHT_PATHS of the flights whose id is in list ids.
ChosenIdx(ids) ==
  {i \in 1..Len(FLIGHT_PATHS) : \E k \in 1..Len(ids) : ids[k] = FLIGHT_PATHS[i].id}

\* The rank of position i among the chosen positions.
RankIn(chosen, i) == Cardinality({j \in chosen : j <= i})

(* ----------------------------------------------------------------------- *)
(* Properties                                                              *)
(* ----------------------------------------------------------------------- *)

\* C1: a call great_circle_points(..., num_points) with num_points >= 2
\* returns a latitude list and a longitude list of exactly num_points
\* elements each; with the default argument, as the figures call it, 50.
C1_LengthIsNumPoints ==
  /\ Returned("great_circle_points") /\ call.args[5] >= 2
       => /\ Len(ret.value[1]) = call.args[5]
          /\ Len(ret.value[2]) = call.args[5]
  /\ Returned("update_flights")
       => \A f \in 1..2 : \A t \in 1..Len(ret.value[f].data) :
            ret.value[f].data[t].mode = "lines"
              => /\ Len(ret.value[f].data[t].lat) = 50
                 /\ Len(ret.value[f].data[t].lon) = 50

C1_Witness ==
  /\ Returned("great_circle_points")
  /\ call.args[5] = 4
  /\ Len(ret.value[1]) = 4 /\ Len(ret.value[2]) = 4

\* C2: for valid endpoints that are neither identical nor
\* antipodal and num_points >= 2, the first point returned is the first
\* endpoint and the last point returned is the second, within tolerance.
C2_EndpointsReproduced ==
  Returned("great_circle_points")
    /\ call.args[5] >= 2 /\ BothValid(call.args)
    /\ ~Identical(call.args) /\ ~Antipodal(call.args)
    => EndpointsMatch(call.args, ret.value)

\* What the code does guarantee about the endpoints: where the central angle
\* it computes is a number other than 0, the first point returned is the
\* first endpoint and the last point returned is the second.
EndpointsWhenDeltaNonzero ==
  Returned("great_circle_points")
    /\ call.args[5] >= 2 /\ BothValid(call.args)
    /\ IsFinite(DeltaOf(call.args)) /\ DeltaOf(call.args) # 0
    => EndpointsMatch(call.args, ret.value)

\* C3: when the two endpoints are identical the call returns num_points
\* copies of the shared point.
C3_IdenticalGivesCopies ==
  Returned("great_circle_points")
    /\ BothValid(call.args) /\ Identical(call.args)
    => /\ ret.raised = "none"
       /\ Len(ret.value[1]) = call.args[5] /\ Len(ret.value[2]) = call.args[5]
       /\ \A k \in 1..call.args[5] :
            Close(ret.value[1][k], call.args[1]) /\ Close(ret.value[2][k], call.args[2])

\* C4: when the two endpoints are exactly antipodal the call signals
\* AmbiguousPathError and returns no path.
C4_AntipodalRaises ==
  Returned("great_circle_points")
    /\ BothValid(call.args) /\ Antipodal(call.args)
    => ret.raised = "AmbiguousPathError"

\* C5: when a latitude is outside [-90, 90] or a longitude is outside
\* [-180, 180] the call signals InvalidCoordinateError and returns no path.
C5_OutOfRangeRaises ==
  Returned("great_circle_points") /\ ~BothValid(call.args)
    => ret.raised = "InvalidCoordinateError"

\* C6: update_flights(selected_ids) draws exactly the flights of
\* FLIGHT_PATHS whose id is in selected_ids, in FLIGHT_PATHS order, two
\* traces per flight (path line, endpoint markers), the same in the globe
\* figure and in the 2D figure.
C6_BothFiguresDrawSelection ==
  Returned("update_flights")
    => LET chosen == ChosenIdx(call.args[1])
           globe == ret.value[1].data
           map == ret.value[2].data
       IN  /\ Len(globe) = 2 * Cardinality(chosen)
           /\ Len(map) = 2 * Cardinality(chosen)
           /\ \A i \in chosen :
                LET m == RankIn(chosen, i)
                    f == FLIGHT_PATHS[i]
                IN  \A data \in {globe, map} :
                      /\ data[2 * m - 1].mode = "lines"
                      /\ data[2 * m - 1].name = f.label
                      /\ data[2 * m].mode = "markers+text"
                      /\ data[2 * m].text = <<f.cities[1][1], f.cities[2][1]>>
                      /\ data[2 * m].lat = <<f.cities[1][2], f.cities[2][2]>>
                      /\ data[2 * m].lon = <<f.cities[1][3], f.cities[2][3]>>
           /\ \A t \in 1..Len(globe) : globe[t] = map[t]

C6_Witness ==
  /\ Returned("update_flights")
  /\ Cardinality(ChosenIdx(call.args[1])) = 2
  /\ Len(call.args[1]) = 2
  /\ Len(ret.value[1].data) = 4 /\ Len(ret.value[2].data) = 4

C8_RegistryNeverChanges ==
  /\ FLIGHT_PATHS = FLIGHT_PATHS_at_import
  /\ default_checked_values = checked_ids(FLIGHT_PATHS_at_import)

C8_Witness ==
  /\ Returned("update_flights")
  /\ Len(call.args[1]) = 2
  /\ Cardinality(ChosenIdx(call.args[1])) = 1
  /\ FLIGHT_PATHS = FLIGHT_PATHS_at_import

C10_IdsDistinct ==
  /\ Len(FLIGHT_PATHS) = 6 + 78 + 2
  /\ Cardinality({FLIGHT_PATHS[i].id : i \in 1..Len(FLIGHT_PATHS)})
       = Len(FLIGHT_PATHS)
  /\ Len(default_checked_values) = 6
  /\ \A i \in 1..6 : default_checked_values[i] = FLIGHT_PATHS[i].id

C10_Witness ==
  /\ Returned("update_flights")
  /\ call.args[1] = default_checked_values
  /\ Len(ret.value[1].data) = 12
  /\ FLIGHT_PATHS[7].id
       = <<"c", "h", "i", "c", "a", "g", "o", "_", "c", "a", "i", "r", "o">>

====
